---- MODULE Spec2Model ----
(***************************************************************************)
(* The VPN server of internal/vpn/server.go as a state machine: the        *)
(* one-time Serve bracket (privilege, forwarding, masquerading, accept     *)
(* loop, deferred teardown), Close, and one session per accepted           *)
(* connection (handshake, provisioning, relay, deferred cleanup); beside   *)
(* it the skychat connection handler (netcon/messenger_service.go) and    *)
(* Network.Close of pkg/snet/network.go, each under a specification of    *)
(* its own.                                                                *)
(***************************************************************************)
EXTENDS Integers, Sequences, FiniteSets, TLC

\* ------------------------------------------------------------- bounds
NumServeCalls == 2
MaxCloses == 2
NumConns == 2
NumBlocks == 2
MaxUnavail == 1
MaxSessions == 1
NumPubKeys == 2
NumHandlers == 2
MaxChatConns == 2
MaxMsgs == 1

Callers == 1..NumServeCalls
Conns == 1..NumConns
NoLis == 0

\* ------------------------------------------------------------- state
VARIABLES
    cfgPasscode,        \* s.cfg.Passcode
    clients,            \* the number of clients that connect during the run
    lis,                \* s.lis (NoLis is nil)
    once,               \* s.serveOnce: "idle", "running", "done"
    ipv4ForwardingVal,  \* s.ipv4ForwardingVal
    ipv6ForwardingVal,  \* s.ipv6ForwardingVal
    fwd4, fwd6, masq,   \* the host: forwarding values, masquerading
    lisClosed,          \* per listener: Close was called on it
    lisCloses,          \* per listener: number of Close calls on it
    closeCalls,         \* number of Server.Close calls made
    closeRet,           \* what the last Server.Close call returned
    crashed,            \* the process died of an unrecovered panic
    firstCaller,        \* the Serve call that entered serveOnce first
    spc,                \* per Serve call: its position
    serveErr,           \* per Serve call: serveErr
    sdefers,            \* per Serve call: the deferred calls, last pushed last
    panicking,          \* per Serve call: unwinding because of a panic
    localLis,           \* per Serve call: the value s.lis evaluated to at line 135
    ops,                \* per Serve call: privileged and network calls made, in order
    acceptCalls,        \* per Serve call: number of Accept calls
    spriv,              \* per Serve call: holds elevated privilege
    nconn,              \* connections accepted so far
    sess,               \* per accepted connection: the serveConn goroutine and its relays
    ipGen,              \* s.ipGen: the address pool
    ms,                 \* skychat: the ConnectionHandlerService and its goroutines
    net                 \* snet: the Network and its Close call

serverVars == <<cfgPasscode, clients, lis, once, ipv4ForwardingVal, ipv6ForwardingVal,
                fwd4, fwd6, masq, lisClosed, lisCloses, closeCalls, closeRet, crashed,
                firstCaller, spc, serveErr, sdefers, panicking, localLis, ops,
                acceptCalls, spriv, nconn>>

\* The components other than the VPN server.
others == <<ms, net>>

vars == <<serverVars, sess, ipGen, others>>

Passcodes == {"", "p"}
FwdVals == {"0", "1"}
AlreadyServing == "already serving"
\* The capacity of ms.errs.
ErrsCap == 1

Push(st, d) == Append(st, d)
Top(st) == st[Len(st)]
Pop(st) == SubSeq(st, 1, Len(st) - 1)
Op(name, ok) == [op |-> name, ok |-> ok]

\* ------------------------------------------------------------- addresses
\* An IPv4 address is the number its last two octets make; Malformed is an
\* address that is no IPv4 address.
BlockSize == 8
Malformed == -1
\* The pool's first block is the last of a third octet, so that the blocks
\* after it lie past the carry.
PoolStart == 248
BlockOf(ip) == (ip - PoolStart) \div BlockSize
BaseOf(b) == PoolStart + b * BlockSize

\* fetchIPv4Octets: the octets of an address.
fetchIPv4Octets(ip) == <<ip \div 256, ip % 256>>
\* net.IPv4 of octets; the last octet is a uint8 sum.
IPv4(o2, o3) == (o2 % 256) * 256 + (o3 % 256)

\* shakeHands, lines 295-299.
sTUNIP(subnetOctets) == IPv4(subnetOctets[1], subnetOctets[2] + 2)
sTUNGateway(subnetOctets) == IPv4(subnetOctets[1], subnetOctets[2] + 1)
\* The client's address taken at the offset of the client's gateway.
cTUNIPMut(subnetOctets) == IPv4(subnetOctets[1], subnetOctets[2] + 3)
cTUNIP(subnetOctets) == IPv4(subnetOctets[1], subnetOctets[2] + 4)
cTUNGateway(subnetOctets) == IPv4(subnetOctets[1], subnetOctets[2] + 3)

\* ------------------------------------------------------------- IPGenerator
NewIPGenerator == [cursor |-> 0, reserved |-> {}, allocated |-> {}]

\* IPGenerator.Reserve: the block holding ip is never handed out.
Reserve(g, ip) == [g EXCEPT !.reserved = @ \cup {BlockOf(ip)}]

\* IPGenerator.Next: the free blocks from the cursor on.
FreeBlocks(g) == {b \in 0..(NumBlocks - 1) : b >= g.cursor /\ b \notin g.reserved}
NextBlock(g) == CHOOSE b \in FreeBlocks(g) : \A o \in FreeBlocks(g) : b <= o
NextGen(g) == [g EXCEPT !.cursor = NextBlock(g) + 1,
                        !.allocated = @ \cup {NextBlock(g)}]

\* ------------------------------------------------------------- handshake
HandshakeStatusOK == "OK"
HandshakeStatusForbidden == "Forbidden"
HandshakeStatusBadRequest == "BadRequest"
HandshakeNoFreeIPs == "NoFreeIPs"
HandshakeStatusInternalError == "InternalError"
NoIP == -2

\* The addresses a client declares unavailable: one of the pool's first
\* block, one that is no IPv4 address.
DeclaredIPs == {PoolStart + 1, Malformed}
RECURSIVE SeqsUpTo(_, _)
SeqsUpTo(S, n) ==
    IF n = 0 THEN {<<>>}
    ELSE SeqsUpTo(S, n - 1) \cup
         {Append(q, x) : q \in {r \in SeqsUpTo(S, n - 1) : Len(r) = n - 1}, x \in S}
ClientHellos ==
    [Passcode : Passcodes, UnavailablePrivateIPs : SeqsUpTo(DeclaredIPs, MaxUnavail)]
NoHello == [Passcode |-> "", UnavailablePrivateIPs |-> <<>>]

\* var sHello ServerHello, line 244: the zero value, whose status is OK.
ServerHello(status, ip, gw) == [Status |-> status, TUNIP |-> ip, TUNGateway |-> gw]
ZeroServerHello == ServerHello(HandshakeStatusOK, NoIP, NoIP)

\* ------------------------------------------------------------- sessions
NoSession ==
    [pc |-> "none", cHello |-> NoHello, ri |-> 1, subnet |-> NoIP, sent |-> <<>>,
     err |-> "none", tunIP |-> NoIP, tunGateway |-> NoIP, defers |-> <<>>,
     closeLog |-> <<>>, tun |-> "none", tunCfg |-> <<>>, priv |-> FALSE,
     ops |-> <<>>, connToTun |-> "none", tunToConn |-> "none", conn |-> "none"]

\* A serveConn that does not defer the connection's close.
NewSessionMut == [NoSession EXCEPT !.pc = "ReadJSON", !.conn = "open"]

\* serveConn, line 170: the connection's close is deferred first. conn is
\* the connection's state: "open", "peer" once the client closed it, "closed"
\* once closeConn closed it first.
NewSession ==
    [NoSession EXCEPT !.pc = "ReadJSON", !.defers = <<"closeConn">>, !.conn = "open"]

\* ------------------------------------------------------------- skychat: NewConnectionHandlerService
PubKeys == 1..NumPubKeys
Handlers == 1..NumHandlers
NoConn == 0

\* An empty map.
EmptyMap == [x \in {} |-> 0]

\* ms.conns is made empty and ms.errs with room for one error; ms.handledConns
\* is left nil, which reads as an empty map. Beside the fields of ms:
\* errsReader is the goroutine of Listen that receives from ms.errs, listen
\* the position of Listen and the keys of its deferred calls, hnd the
\* HandleConnection goroutines in the order they were started, chatConns the
\* number of connections accepted or dialled, msgrx the number of messages
\* passed on to ms.msgrx.
ChatInit ==
    ms = [conns |-> EmptyMap, handledConns |-> EmptyMap, errs |-> <<>>,
          errsReader |-> "none", listen |-> [pc |-> "none", defers |-> <<>>],
          hnd |-> <<>>, chatConns |-> 0, msgrx |-> 0]

\* No connection handler service is constructed.
NoChat == ms = "none"

\* ------------------------------------------------------------- snet: NewRaw
\* The keys n.clients.Direct may have.
DirectTypes == {"stcp", "stcpr"}
DmsgType == "dmsg"
Closers == {DmsgType} \cup DirectTypes

\* The maps n.clients.Direct can be: some of the direct types, each with a
\* nil client or a client.
DirectMaps == UNION {[S -> {"nil", "client"}] : S \in SUBSET DirectTypes}

\* A Network before Close is called on it: n.netsMu is free, the locals of
\* Close (cls) are not there yet, no goroutine of Close (gor) is started and
\* no client closed.
Network(cs, shared) ==
    [clients |-> cs, loopVarShared |-> shared, netsMu |-> FALSE,
     cls |-> [pc |-> "idle"], gor |-> EmptyMap,
     closeCount |-> [c \in Closers |-> 0], crashed |-> FALSE]

\* NewRaw takes the clients it is given: a dmsg client or none, and a map of
\* direct clients. What a closure started in a range loop sees of k and v is
\* the build's: the loop's one pair for all turns, or the pair of its own
\* turn.
NetInit ==
    \E cs \in [DmsgC : BOOLEAN, Direct : DirectMaps], shared \in BOOLEAN :
        net = Network(cs, shared)

\* No Network is constructed.
NoNet == net = "none"

\* The components other than the VPN server are not there.
OthersInit == NoChat /\ NoNet

\* ------------------------------------------------------------- NewServer
ServerInit ==
    /\ cfgPasscode \in Passcodes
    /\ clients \in 0..NumConns
    /\ lis = NoLis
    /\ once = "idle"
    /\ fwd4 \in FwdVals
    /\ fwd6 \in FwdVals
    /\ masq = FALSE
    /\ ipv4ForwardingVal = fwd4
    /\ ipv6ForwardingVal = fwd6
    /\ lisClosed = [l \in Callers |-> FALSE]
    /\ lisCloses = [l \in Callers |-> 0]
    /\ closeCalls = 0
    /\ closeRet = "none"
    /\ crashed = FALSE
    /\ firstCaller = 0
    /\ spc = [c \in Callers |-> "start"]
    /\ serveErr = [c \in Callers |-> "none"]
    /\ sdefers = [c \in Callers |-> <<>>]
    /\ panicking = [c \in Callers |-> FALSE]
    /\ localLis = [c \in Callers |-> NoLis]
    /\ ops = [c \in Callers |-> <<>>]
    /\ acceptCalls = [c \in Callers |-> 0]
    /\ spriv = [c \in Callers |-> FALSE]
    /\ nconn = 0
    /\ sess = [k \in Conns |-> NoSession]
    /\ ipGen = NewIPGenerator

Init == OthersInit /\ ServerInit

\* ------------------------------------------------------------- Server.Serve
\* A guard that is open again once the first run is over.
OnceIdleMut == once # "running"

\* s.serveOnce.Do runs its function for the first caller only.
OnceIdle == once = "idle"

\* Serve, lines 68-70: the first call enters the function given to serveOnce.Do.
\* A call made while that function runs blocks inside Do until it is over.
Serve_Enter(c) ==
    /\ ~crashed
    /\ spc[c] = "start"
    /\ OnceIdle
    /\ once' = "running"
    /\ firstCaller' = IF firstCaller = 0 THEN c ELSE firstCaller
    /\ serveErr' = [serveErr EXCEPT ![c] = AlreadyServing]
    /\ spc' = [spc EXCEPT ![c] = "setupSysPrivileges"]
    /\ UNCHANGED <<others, cfgPasscode, clients, lis, ipv4ForwardingVal, ipv6ForwardingVal, fwd4,
                   fwd6, masq, lisClosed, lisCloses, closeCalls, closeRet, crashed, sdefers,
                   panicking, localLis, ops, acceptCalls, spriv, nconn, sess, ipGen>>

\* Serve, lines 69, 70, 145: serveOnce is spent, Do returns at once and Serve
\* returns the error it started with.
Serve_AlreadyServing(c) ==
    /\ ~crashed
    /\ spc[c] = "start"
    /\ once = "done"
    /\ serveErr' = [serveErr EXCEPT ![c] = AlreadyServing]
    /\ spc' = [spc EXCEPT ![c] = "returned"]
    /\ UNCHANGED <<others, cfgPasscode, clients, lis, once, ipv4ForwardingVal, ipv6ForwardingVal,
                   fwd4, fwd6, masq, lisClosed, lisCloses, closeCalls, closeRet, crashed,
                   firstCaller, sdefers, panicking, localLis, ops, acceptCalls,
                   spriv, nconn, sess, ipGen>>

\* The frame of a step of the setup sequence.
SetupFrame ==
    UNCHANGED <<others, cfgPasscode, clients, lis, once, ipv4ForwardingVal, ipv6ForwardingVal,
                lisClosed, lisCloses, closeCalls, closeRet, crashed, firstCaller, panicking,
                localLis, acceptCalls, nconn, sess, ipGen>>

\* Serve, lines 71-77.
Serve_setupSysPrivileges(c) ==
    /\ ~crashed
    /\ spc[c] = "setupSysPrivileges"
    /\ \E ok \in BOOLEAN :
        /\ ops' = [ops EXCEPT ![c] = Append(@, Op("setupSysPrivileges", ok))]
        /\ IF ok
           THEN /\ spriv' = [spriv EXCEPT ![c] = TRUE]
                /\ sdefers' = [sdefers EXCEPT ![c] = Push(@, "releaseSysPrivileges")]
                /\ spc' = [spc EXCEPT ![c] = "EnableIPv4Forwarding"]
                /\ UNCHANGED serveErr
           ELSE /\ serveErr' = [serveErr EXCEPT ![c] = "failed to setup system privileges"]
                /\ spc' = [spc EXCEPT ![c] = "return"]
                /\ UNCHANGED <<spriv, sdefers>>
    /\ UNCHANGED <<fwd4, fwd6, masq>>
    /\ SetupFrame

\* IPv4 forwarding enabled, its restoration not deferred.
Serve_EnableIPv4ForwardingMut(c) ==
    /\ ~crashed
    /\ spc[c] = "EnableIPv4Forwarding"
    /\ \E ok \in BOOLEAN :
        /\ ops' = [ops EXCEPT ![c] = Append(@, Op("EnableIPv4Forwarding", ok))]
        /\ IF ok
           THEN /\ fwd4' = "1"
                /\ spc' = [spc EXCEPT ![c] = "EnableIPv6Forwarding"]
                /\ UNCHANGED <<serveErr, sdefers>>
           ELSE /\ serveErr' = [serveErr EXCEPT ![c] = "error enabling IPv4 forwarding"]
                /\ spc' = [spc EXCEPT ![c] = "return"]
                /\ UNCHANGED <<fwd4, sdefers>>
    /\ UNCHANGED <<fwd6, masq, spriv>>
    /\ SetupFrame

\* Serve, lines 79-90.
Serve_EnableIPv4Forwarding(c) ==
    /\ ~crashed
    /\ spc[c] = "EnableIPv4Forwarding"
    /\ \E ok \in BOOLEAN :
        /\ ops' = [ops EXCEPT ![c] = Append(@, Op("EnableIPv4Forwarding", ok))]
        /\ IF ok
           THEN /\ fwd4' = "1"
                /\ sdefers' = [sdefers EXCEPT ![c] = Push(@, "SetIPv4ForwardingValue")]
                /\ spc' = [spc EXCEPT ![c] = "EnableIPv6Forwarding"]
                /\ UNCHANGED serveErr
           ELSE /\ serveErr' = [serveErr EXCEPT ![c] = "error enabling IPv4 forwarding"]
                /\ spc' = [spc EXCEPT ![c] = "return"]
                /\ UNCHANGED <<fwd4, sdefers>>
    /\ UNCHANGED <<fwd6, masq, spriv>>
    /\ SetupFrame

\* An enabling of IPv6 forwarding that takes the snapshot anew, once the
\* value is set.
Serve_EnableIPv6ForwardingMut(c) ==
    /\ ~crashed
    /\ spc[c] = "EnableIPv6Forwarding"
    /\ \E ok \in BOOLEAN :
        /\ ops' = [ops EXCEPT ![c] = Append(@, Op("EnableIPv6Forwarding", ok))]
        /\ IF ok
           THEN /\ fwd6' = "1"
                /\ ipv6ForwardingVal' = "1"
                /\ sdefers' = [sdefers EXCEPT ![c] = Push(@, "SetIPv6ForwardingValue")]
                /\ spc' = [spc EXCEPT ![c] = "EnableIPMasquerading"]
                /\ UNCHANGED serveErr
           ELSE /\ serveErr' = [serveErr EXCEPT ![c] = "error enabling IPv6 forwarding"]
                /\ spc' = [spc EXCEPT ![c] = "return"]
                /\ UNCHANGED <<fwd6, ipv6ForwardingVal, sdefers>>
    /\ UNCHANGED <<fwd4, masq, spriv>>
    /\ UNCHANGED <<others, cfgPasscode, clients, lis, once, ipv4ForwardingVal, lisClosed,
                   lisCloses, closeCalls, closeRet, crashed, firstCaller, panicking, localLis,
                   acceptCalls, nconn, sess, ipGen>>

\* Serve, lines 92-103.
Serve_EnableIPv6Forwarding(c) ==
    /\ ~crashed
    /\ spc[c] = "EnableIPv6Forwarding"
    /\ \E ok \in BOOLEAN :
        /\ ops' = [ops EXCEPT ![c] = Append(@, Op("EnableIPv6Forwarding", ok))]
        /\ IF ok
           THEN /\ fwd6' = "1"
                /\ sdefers' = [sdefers EXCEPT ![c] = Push(@, "SetIPv6ForwardingValue")]
                /\ spc' = [spc EXCEPT ![c] = "EnableIPMasquerading"]
                /\ UNCHANGED serveErr
           ELSE /\ serveErr' = [serveErr EXCEPT ![c] = "error enabling IPv6 forwarding"]
                /\ spc' = [spc EXCEPT ![c] = "return"]
                /\ UNCHANGED <<fwd6, sdefers>>
    /\ UNCHANGED <<fwd4, masq, spriv>>
    /\ SetupFrame

\* An enabling of masquerading whose disabling is deferred before its
\* outcome is looked at.
Serve_EnableIPMasqueradingMut(c) ==
    /\ ~crashed
    /\ spc[c] = "EnableIPMasquerading"
    /\ \E ok \in BOOLEAN :
        /\ ops' = [ops EXCEPT ![c] = Append(@, Op("EnableIPMasquerading", ok))]
        /\ sdefers' = [sdefers EXCEPT ![c] = Push(@, "DisableIPMasquerading")]
        /\ IF ok
           THEN /\ masq' = TRUE
                /\ spc' = [spc EXCEPT ![c] = "releaseSysPrivileges"]
                /\ UNCHANGED serveErr
           ELSE /\ serveErr' = [serveErr EXCEPT ![c] = "error enabling IP masquerading"]
                /\ spc' = [spc EXCEPT ![c] = "return"]
                /\ UNCHANGED masq
    /\ UNCHANGED <<fwd4, fwd6, spriv>>
    /\ SetupFrame

\* Serve, lines 105-118.
Serve_EnableIPMasquerading(c) ==
    /\ ~crashed
    /\ spc[c] = "EnableIPMasquerading"
    /\ \E ok \in BOOLEAN :
        /\ ops' = [ops EXCEPT ![c] = Append(@, Op("EnableIPMasquerading", ok))]
        /\ IF ok
           THEN /\ masq' = TRUE
                /\ sdefers' = [sdefers EXCEPT ![c] = Push(@, "DisableIPMasquerading")]
                /\ spc' = [spc EXCEPT ![c] = "releaseSysPrivileges"]
                /\ UNCHANGED serveErr
           ELSE /\ serveErr' = [serveErr EXCEPT ![c] = "error enabling IP masquerading"]
                /\ spc' = [spc EXCEPT ![c] = "return"]
                /\ UNCHANGED <<masq, sdefers>>
    /\ UNCHANGED <<fwd4, fwd6, spriv>>
    /\ SetupFrame

\* Serve, lines 120-128: privilege is dropped for the accept loop, and its
\* re-acquisition is deferred to the return.
Serve_releaseSysPrivileges(c) ==
    /\ ~crashed
    /\ spc[c] = "releaseSysPrivileges"
    /\ ops' = [ops EXCEPT ![c] = Append(@, Op("releaseSysPrivileges", TRUE))]
    /\ spriv' = [spriv EXCEPT ![c] = FALSE]
    /\ sdefers' = [sdefers EXCEPT ![c] = Push(@, "setupSysPrivileges")]
    /\ spc' = [spc EXCEPT ![c] = "storeLis"]
    /\ UNCHANGED <<fwd4, fwd6, masq, serveErr>>
    /\ SetupFrame

\* Serve, lines 130-132: s.lis = l under s.lisMx. Call c was given listener c.
Serve_StoreListener(c) ==
    /\ ~crashed
    /\ spc[c] = "storeLis"
    /\ lis' = c
    /\ spc' = [spc EXCEPT ![c] = "loop"]
    /\ UNCHANGED <<others, cfgPasscode, clients, once, ipv4ForwardingVal, ipv6ForwardingVal, fwd4,
                   fwd6, masq, lisClosed, lisCloses, closeCalls, closeRet, crashed,
                   firstCaller, serveErr, sdefers, panicking, localLis, ops,
                   acceptCalls, spriv, nconn, sess, ipGen>>

\* The values the unlocked read of s.lis at line 135 can yield. Close writes
\* s.lis under s.lisMx, the accept loop reads it without the lock: the read
\* races with Close's write and yields either the listener this call stored
\* or the nil Close wrote.
LisReadValues(c) == IF lis = NoLis THEN {NoLis, c} ELSE {lis}

\* Serve, line 135, the evaluation of s.lis: a nil listener makes the call
\* s.lis.Accept() panic, and the deferred calls run as the panic unwinds.
Serve_ReadListener(c) ==
    /\ ~crashed
    /\ spc[c] = "loop"
    /\ \E l \in LisReadValues(c) :
        /\ localLis' = [localLis EXCEPT ![c] = l]
        /\ IF l = NoLis
           THEN /\ panicking' = [panicking EXCEPT ![c] = TRUE]
                /\ spc' = [spc EXCEPT ![c] = "return"]
           ELSE /\ spc' = [spc EXCEPT ![c] = "Accept"]
                /\ UNCHANGED panicking
    /\ UNCHANGED <<others, cfgPasscode, clients, lis, once, ipv4ForwardingVal, ipv6ForwardingVal,
                   fwd4, fwd6, masq, lisClosed, lisCloses, closeCalls, closeRet, crashed,
                   firstCaller, serveErr, sdefers, ops, acceptCalls, spriv, nconn,
                   sess, ipGen>>

\* An accept loop that calls serveConn in place and so accepts again only
\* when the session before is over.
Serve_AcceptConnMut(c) ==
    /\ ~crashed
    /\ spc[c] = "Accept"
    /\ ~lisClosed[localLis[c]]
    /\ nconn < clients
    /\ \A k \in 1..nconn : sess[k].pc = "done"
    /\ nconn' = nconn + 1
    /\ acceptCalls' = [acceptCalls EXCEPT ![c] = @ + 1]
    /\ sess' = [sess EXCEPT ![nconn + 1] = NewSession]
    /\ spc' = [spc EXCEPT ![c] = "loop"]
    /\ UNCHANGED <<others, cfgPasscode, clients, lis, once, ipv4ForwardingVal, ipv6ForwardingVal,
                   fwd4, fwd6, masq, lisClosed, lisCloses, closeCalls, closeRet, crashed,
                   firstCaller, serveErr, sdefers, panicking, localLis, ops, spriv,
                   ipGen>>

\* Serve, lines 135, 141: Accept returns a connection and serveConn is
\* started on it in a goroutine of its own.
Serve_AcceptConn(c) ==
    /\ ~crashed
    /\ spc[c] = "Accept"
    /\ ~lisClosed[localLis[c]]
    /\ nconn < clients
    /\ nconn' = nconn + 1
    /\ acceptCalls' = [acceptCalls EXCEPT ![c] = @ + 1]
    /\ sess' = [sess EXCEPT ![nconn + 1] = NewSession]
    /\ spc' = [spc EXCEPT ![c] = "loop"]
    /\ UNCHANGED <<others, cfgPasscode, clients, lis, once, ipv4ForwardingVal, ipv6ForwardingVal,
                   fwd4, fwd6, masq, lisClosed, lisCloses, closeCalls, closeRet, crashed,
                   firstCaller, serveErr, sdefers, panicking, localLis, ops, spriv,
                   ipGen>>

\* Serve, lines 135-139: Accept fails, as it does once the listener is
\* closed (and as any listener may), and the function returns.
Serve_AcceptFail(c) ==
    /\ ~crashed
    /\ spc[c] = "Accept"
    /\ acceptCalls' = [acceptCalls EXCEPT ![c] = @ + 1]
    /\ serveErr' = [serveErr EXCEPT ![c] = "failed to accept client connection"]
    /\ spc' = [spc EXCEPT ![c] = "return"]
    /\ UNCHANGED <<others, cfgPasscode, clients, lis, once, ipv4ForwardingVal, ipv6ForwardingVal,
                   fwd4, fwd6, masq, lisClosed, lisCloses, closeCalls, closeRet, crashed,
                   firstCaller, sdefers, panicking, localLis, ops, spriv, nconn,
                   sess, ipGen>>

\* The deferred call that runs next: the one deferred last.
NextDeferred(st) == Top(st)

\* A teardown that gives up at the first deferred call that fails.
Serve_RunDeferredMut(c) ==
    /\ ~crashed
    /\ spc[c] = "return"
    /\ sdefers[c] # <<>>
    /\ LET d == NextDeferred(sdefers[c]) IN
       \E ok \in BOOLEAN :
           /\ (d = "releaseSysPrivileges") => ok
           /\ sdefers' = [sdefers EXCEPT ![c] = IF ok THEN Pop(@) ELSE <<>>]
           /\ ops' = [ops EXCEPT ![c] = Append(@, Op(d, ok))]
           /\ spriv' = [spriv EXCEPT ![c] =
                           IF d = "setupSysPrivileges" THEN (ok \/ @)
                           ELSE IF d = "releaseSysPrivileges" THEN FALSE ELSE @]
           /\ fwd4' = IF d = "SetIPv4ForwardingValue" /\ ok
                      THEN ipv4ForwardingVal ELSE fwd4
           /\ fwd6' = IF d = "SetIPv6ForwardingValue" /\ ok
                      THEN ipv6ForwardingVal ELSE fwd6
           /\ masq' = IF d = "DisableIPMasquerading" /\ ok THEN FALSE ELSE masq
    /\ UNCHANGED <<others, cfgPasscode, clients, lis, once, ipv4ForwardingVal, ipv6ForwardingVal,
                   lisClosed, lisCloses, closeCalls, closeRet, crashed, firstCaller, spc,
                   serveErr, panicking, localLis, acceptCalls, nconn, sess, ipGen>>

\* Serve, lines 77, 84-90, 97-103, 112-118, 122-128: one deferred call runs.
\* A failing call is logged and the next one runs all the same.
Serve_RunDeferred(c) ==
    /\ ~crashed
    /\ spc[c] = "return"
    /\ sdefers[c] # <<>>
    /\ LET d == NextDeferred(sdefers[c]) IN
       /\ sdefers' = [sdefers EXCEPT ![c] = Pop(@)]
       /\ \E ok \in BOOLEAN :
           /\ (d = "releaseSysPrivileges") => ok
           /\ ops' = [ops EXCEPT ![c] = Append(@, Op(d, ok))]
           /\ spriv' = [spriv EXCEPT ![c] =
                           IF d = "setupSysPrivileges" THEN (ok \/ @)
                           ELSE IF d = "releaseSysPrivileges" THEN FALSE ELSE @]
           /\ fwd4' = IF d = "SetIPv4ForwardingValue" /\ ok
                      THEN ipv4ForwardingVal ELSE fwd4
           /\ fwd6' = IF d = "SetIPv6ForwardingValue" /\ ok
                      THEN ipv6ForwardingVal ELSE fwd6
           /\ masq' = IF d = "DisableIPMasquerading" /\ ok THEN FALSE ELSE masq
    /\ UNCHANGED <<others, cfgPasscode, clients, lis, once, ipv4ForwardingVal, ipv6ForwardingVal,
                   lisClosed, lisCloses, closeCalls, closeRet, crashed, firstCaller, spc,
                   serveErr, panicking, localLis, acceptCalls, nconn, sess, ipGen>>

\* The goroutines of the sessions when the process ends: the sessions under
\* way are cut off where they are.
Killed(ss) ==
    [k \in Conns |->
        IF ss[k].pc \in {"none", "done"} THEN ss[k] ELSE [ss[k] EXCEPT !.pc = "killed"]]

\* A return after which serveOnce is armed again when the setup sequence
\* failed.
Serve_ReturnMut(c) ==
    /\ ~crashed
    /\ spc[c] = "return"
    /\ sdefers[c] = <<>>
    /\ once' = IF acceptCalls[c] = 0 /\ ~panicking[c] THEN "idle" ELSE "done"
    /\ crashed' = panicking[c]
    /\ spc' = [spc EXCEPT ![c] = IF panicking[c] THEN "panicked" ELSE "returned"]
    /\ sess' = IF panicking[c] THEN Killed(sess) ELSE sess
    /\ UNCHANGED <<others, cfgPasscode, clients, lis, ipv4ForwardingVal, ipv6ForwardingVal, fwd4,
                   fwd6, masq, lisClosed, lisCloses, closeCalls, closeRet, firstCaller,
                   serveErr, sdefers, panicking, localLis, ops, acceptCalls, spriv,
                   nconn, ipGen>>

\* Serve, lines 143-145: the function is over, serveOnce is spent and Serve
\* returns serveErr; a panic goes on past Serve and, nothing recovering it,
\* ends the process and every goroutine with it.
Serve_Return(c) ==
    /\ ~crashed
    /\ spc[c] = "return"
    /\ sdefers[c] = <<>>
    /\ once' = "done"
    /\ crashed' = panicking[c]
    /\ spc' = [spc EXCEPT ![c] = IF panicking[c] THEN "panicked" ELSE "returned"]
    /\ sess' = IF panicking[c] THEN Killed(sess) ELSE sess
    /\ UNCHANGED <<others, cfgPasscode, clients, lis, ipv4ForwardingVal, ipv6ForwardingVal, fwd4,
                   fwd6, masq, lisClosed, lisCloses, closeCalls, closeRet, firstCaller,
                   serveErr, sdefers, panicking, localLis, ops, acceptCalls, spriv,
                   nconn, ipGen>>

\* ------------------------------------------------------------- Server.Close
\* What a listener's Close returns: nil or an error.
CloseResults == {"nil", "error closing listener"}

\* A Close that leaves the listener in s.lis after closing it.
CloseMut ==
    /\ ~crashed
    /\ closeCalls < MaxCloses
    /\ closeCalls' = closeCalls + 1
    /\ IF lis = NoLis
       THEN /\ closeRet' = "nil"
            /\ UNCHANGED <<lis, lisClosed, lisCloses>>
       ELSE /\ closeRet' \in CloseResults
            /\ lisClosed' = [lisClosed EXCEPT ![lis] = TRUE]
            /\ lisCloses' = [lisCloses EXCEPT ![lis] = @ + 1]
            /\ UNCHANGED lis
    /\ UNCHANGED <<others, cfgPasscode, clients, once, ipv4ForwardingVal, ipv6ForwardingVal, fwd4,
                   fwd6, masq, crashed, firstCaller, spc, serveErr, sdefers,
                   panicking, localLis, ops, acceptCalls, spriv, nconn, sess, ipGen>>

\* Close, lines 149-161, the whole of it under s.lisMx.
Close ==
    /\ ~crashed
    /\ closeCalls < MaxCloses
    /\ closeCalls' = closeCalls + 1
    /\ IF lis = NoLis
       THEN /\ closeRet' = "nil"
            /\ UNCHANGED <<lis, lisClosed, lisCloses>>
       ELSE /\ closeRet' \in CloseResults
            /\ lisClosed' = [lisClosed EXCEPT ![lis] = TRUE]
            /\ lisCloses' = [lisCloses EXCEPT ![lis] = @ + 1]
            /\ lis' = NoLis
    /\ UNCHANGED <<others, cfgPasscode, clients, once, ipv4ForwardingVal, ipv6ForwardingVal, fwd4,
                   fwd6, masq, crashed, firstCaller, spc, serveErr, sdefers,
                   panicking, localLis, ops, acceptCalls, spriv, nconn, sess, ipGen>>

\* ------------------------------------------------------------- Server.shakeHands
\* WriteJSON(conn, &sHello): one attempt to send a ServerHello.
Sent(r, sHello) == Append(r.sent, sHello)

\* A serveConn that goes on to provisioning after a failed handshake.
HandshakeFailedMut(r, e) == [r EXCEPT !.err = e, !.pc = "setupSysPrivileges"]

\* serveConn, lines 173-176: shakeHands returned an error, serveConn returns.
HandshakeFailed(r, e) == [r EXCEPT !.err = e, !.pc = "return"]

\* A refusal that returns the error without sending the ServerHello.
RefuseMut(r, status, e) == HandshakeFailed(r, e)

\* shakeHands, lines 247-252, 258-263, 269-274, 279-284: a status other than
\* OK is sent and an error returned, whether or not the send succeeds.
Refuse(r, status, e) ==
    HandshakeFailed([r EXCEPT !.sent = Sent(r, ServerHello(status, NoIP, NoIP))], e)

\* shakeHands, lines 237-242: one ClientHello is decoded, or decoding fails.
shakeHands_ReadJSON(k) ==
    /\ ~crashed
    /\ sess[k].pc = "ReadJSON"
    /\ \/ sess' = [sess EXCEPT ![k] = HandshakeFailed(@, "error reading client hello")]
       \/ \E h \in ClientHellos :
            sess' = [sess EXCEPT ![k].cHello = h, ![k].pc = "Passcode"]
    /\ UNCHANGED <<others, serverVars, ipGen>>

\* The passcode checked only when the server has none configured.
WrongPasscodeMut(h) == cfgPasscode = "" /\ h.Passcode # cfgPasscode

\* shakeHands, line 246.
WrongPasscode(h) == cfgPasscode # "" /\ h.Passcode # cfgPasscode

\* shakeHands, lines 244-253.
shakeHands_Passcode(k) ==
    /\ ~crashed
    /\ sess[k].pc = "Passcode"
    /\ IF WrongPasscode(sess[k].cHello)
       THEN sess' = [sess EXCEPT ![k] = Refuse(sess[k], HandshakeStatusForbidden,
                                               "got wrong passcode from client")]
       ELSE sess' = [sess EXCEPT ![k].pc = "Reserve", ![k].ri = 1]
    /\ UNCHANGED <<others, serverVars, ipGen>>

\* A loop over the declared addresses that passes over a malformed one.
shakeHands_ReserveLenientMut(k) ==
    /\ ~crashed
    /\ sess[k].pc = "Reserve"
    /\ sess[k].ri <= Len(sess[k].cHello.UnavailablePrivateIPs)
    /\ LET ip == sess[k].cHello.UnavailablePrivateIPs[sess[k].ri] IN
       /\ ipGen' = IF ip = Malformed THEN ipGen ELSE Reserve(ipGen, ip)
       /\ sess' = [sess EXCEPT ![k].ri = @ + 1]
    /\ UNCHANGED <<others, serverVars>>

\* A loop over the declared addresses that reserves none of them.
shakeHands_ReserveMut(k) ==
    /\ ~crashed
    /\ sess[k].pc = "Reserve"
    /\ sess[k].ri <= Len(sess[k].cHello.UnavailablePrivateIPs)
    /\ LET ip == sess[k].cHello.UnavailablePrivateIPs[sess[k].ri] IN
       IF ip = Malformed
       THEN sess' = [sess EXCEPT ![k] = Refuse(sess[k], HandshakeStatusBadRequest,
                                               "error reserving IP")]
       ELSE sess' = [sess EXCEPT ![k].ri = @ + 1]
    /\ UNCHANGED <<others, serverVars, ipGen>>

\* shakeHands, lines 255-265: one turn of the loop over the declared addresses.
shakeHands_Reserve(k) ==
    /\ ~crashed
    /\ sess[k].pc = "Reserve"
    /\ sess[k].ri <= Len(sess[k].cHello.UnavailablePrivateIPs)
    /\ LET ip == sess[k].cHello.UnavailablePrivateIPs[sess[k].ri] IN
       IF ip = Malformed
       THEN /\ sess' = [sess EXCEPT ![k] = Refuse(sess[k], HandshakeStatusBadRequest,
                                               "error reserving IP")]
            /\ UNCHANGED ipGen
       ELSE /\ ipGen' = Reserve(ipGen, ip)
            /\ sess' = [sess EXCEPT ![k].ri = @ + 1]
    /\ UNCHANGED <<others, serverVars>>

\* A handshake that takes the block Next would return and leaves the pool
\* as it found it.
shakeHands_NextMut(k) ==
    /\ ~crashed
    /\ sess[k].pc = "Reserve"
    /\ sess[k].ri > Len(sess[k].cHello.UnavailablePrivateIPs)
    /\ IF FreeBlocks(ipGen) = {}
       THEN sess' = [sess EXCEPT ![k] = Refuse(sess[k], HandshakeNoFreeIPs,
                                               "error getting free subnet IP")]
       ELSE sess' = [sess EXCEPT ![k].subnet = BaseOf(NextBlock(ipGen)),
                                 ![k].pc = "fetchIPv4Octets"]
    /\ UNCHANGED <<others, serverVars, ipGen>>

\* shakeHands, lines 267-275.
shakeHands_Next(k) ==
    /\ ~crashed
    /\ sess[k].pc = "Reserve"
    /\ sess[k].ri > Len(sess[k].cHello.UnavailablePrivateIPs)
    /\ IF FreeBlocks(ipGen) = {}
       THEN /\ sess' = [sess EXCEPT ![k] = Refuse(sess[k], HandshakeNoFreeIPs,
                                               "error getting free subnet IP")]
            /\ UNCHANGED ipGen
       ELSE /\ ipGen' = NextGen(ipGen)
            /\ sess' = [sess EXCEPT ![k].subnet = BaseOf(NextBlock(ipGen)),
                                    ![k].pc = "fetchIPv4Octets"]
    /\ UNCHANGED <<others, serverVars>>

\* shakeHands, lines 277-285: the subnet address does not break into octets.
shakeHands_OctetsFail(k) ==
    /\ ~crashed
    /\ sess[k].pc = "fetchIPv4Octets"
    /\ sess' = [sess EXCEPT ![k] = Refuse(sess[k], HandshakeStatusInternalError,
                                               "error breaking IP into octets")]
    /\ UNCHANGED <<others, serverVars, ipGen>>

\* A handshake that returns the server's pair whether or not the ServerHello
\* was sent.
shakeHands_WriteJSONMut(k) ==
    /\ ~crashed
    /\ sess[k].pc = "fetchIPv4Octets"
    /\ LET subnetOctets == fetchIPv4Octets(sess[k].subnet)
           sHello == [ZeroServerHello EXCEPT !.TUNIP = cTUNIP(subnetOctets),
                                             !.TUNGateway = cTUNGateway(subnetOctets)]
       IN \E ok \in BOOLEAN :
          sess' = [sess EXCEPT ![k].sent = Sent(sess[k], sHello),
                               ![k].tunIP = sTUNIP(subnetOctets),
                               ![k].tunGateway = sTUNGateway(subnetOctets),
                               ![k].cHello = NoHello,
                               ![k].err = IF ok THEN @ ELSE "error finishing handshake",
                               ![k].pc = "setupSysPrivileges"]
    /\ UNCHANGED <<others, serverVars, ipGen>>

\* shakeHands, lines 277, 295-308, and serveConn, line 172: the four addresses
\* are computed, the client's pair is sent and the server's pair returned.
shakeHands_WriteJSON(k) ==
    /\ ~crashed
    /\ sess[k].pc = "fetchIPv4Octets"
    /\ LET subnetOctets == fetchIPv4Octets(sess[k].subnet)
           sHello == [ZeroServerHello EXCEPT !.TUNIP = cTUNIP(subnetOctets),
                                             !.TUNGateway = cTUNGateway(subnetOctets)]
       IN \E ok \in BOOLEAN :
          IF ok
          THEN sess' = [sess EXCEPT ![k].sent = Sent(sess[k], sHello),
                                    ![k].tunIP = sTUNIP(subnetOctets),
                                    ![k].tunGateway = sTUNGateway(subnetOctets),
                                    ![k].cHello = NoHello,
                                    ![k].pc = "setupSysPrivileges"]
          ELSE sess' = [sess EXCEPT ![k] = HandshakeFailed(
                           [sess[k] EXCEPT !.sent = Sent(sess[k], sHello)],
                           "error finishing handshake")]
    /\ UNCHANGED <<others, serverVars, ipGen>>

\* ------------------------------------------------------------- Server.serveConn
\* serveConn, lines 178-183.
serveConn_setupSysPrivileges(k) ==
    /\ ~crashed
    /\ sess[k].pc = "setupSysPrivileges"
    /\ \E ok \in BOOLEAN :
        sess' = [sess EXCEPT
            ![k].ops = Append(@, Op("setupSysPrivileges", ok)),
            ![k].priv = ok,
            ![k].defers = IF ok THEN Push(@, "releaseSysPrivileges") ELSE @,
            ![k].pc = IF ok THEN "newTUNDevice" ELSE "return"]
    /\ UNCHANGED <<others, serverVars, ipGen>>

\* serveConn, lines 185-197.
serveConn_newTUNDevice(k) ==
    /\ ~crashed
    /\ sess[k].pc = "newTUNDevice"
    /\ \E ok \in BOOLEAN :
        sess' = [sess EXCEPT
            ![k].ops = Append(@, Op("newTUNDevice", ok)),
            ![k].tun = IF ok THEN "open" ELSE @,
            ![k].defers = IF ok THEN Push(@, "tun.Close") ELSE @,
            ![k].pc = IF ok THEN "SetupTUN" ELSE "return"]
    /\ UNCHANGED <<others, serverVars, ipGen>>

\* A SetupTUN whose failure is passed over.
serveConn_SetupTUNMut(k) ==
    /\ ~crashed
    /\ sess[k].pc = "SetupTUN"
    /\ \E ok \in BOOLEAN :
        sess' = [sess EXCEPT
            ![k].ops = Append(@, Op("SetupTUN", ok)),
            ![k].tunCfg = IF ok THEN <<sess[k].tunIP, sess[k].tunGateway>> ELSE @,
            ![k].pc = "releaseSysPrivileges"]
    /\ UNCHANGED <<others, serverVars, ipGen>>

\* serveConn, lines 199-202.
serveConn_SetupTUN(k) ==
    /\ ~crashed
    /\ sess[k].pc = "SetupTUN"
    /\ \E ok \in BOOLEAN :
        sess' = [sess EXCEPT
            ![k].ops = Append(@, Op("SetupTUN", ok)),
            ![k].tunCfg = IF ok THEN <<sess[k].tunIP, sess[k].tunGateway>> ELSE @,
            ![k].pc = IF ok THEN "releaseSysPrivileges" ELSE "return"]
    /\ UNCHANGED <<others, serverVars, ipGen>>

\* serveConn, lines 204-210: privilege is released and, in the next
\* statement, set up again.
serveConn_releaseSysPrivileges(k) ==
    /\ ~crashed
    /\ sess[k].pc = "releaseSysPrivileges"
    /\ \E ok \in BOOLEAN :
        sess' = [sess EXCEPT
            ![k].ops = @ \o <<Op("releaseSysPrivileges", TRUE),
                              Op("setupSysPrivileges", ok)>>,
            ![k].priv = ok,
            ![k].pc = "relay"]
    /\ UNCHANGED <<others, serverVars, ipGen>>

\* serveConn, lines 212-227: the two relay goroutines are started.
serveConn_StartRelays(k) ==
    /\ ~crashed
    /\ sess[k].pc = "relay"
    /\ sess' = [sess EXCEPT ![k].connToTun = "running",
                            ![k].tunToConn = "running",
                            ![k].pc = "select"]
    /\ UNCHANGED <<others, serverVars, ipGen>>

\* serveConn, lines 214-220: io.Copy(tun, conn) ends, connToTunDoneCh is closed.
Relay_connToTun(k) ==
    /\ ~crashed
    /\ sess[k].connToTun = "running"
    /\ sess' = [sess EXCEPT ![k].connToTun = "done"]
    /\ UNCHANGED <<others, serverVars, ipGen>>

\* serveConn, lines 221-227: io.Copy(conn, tun) ends, tunToConnCh is closed.
Relay_tunToConn(k) ==
    /\ ~crashed
    /\ sess[k].tunToConn = "running"
    /\ sess' = [sess EXCEPT ![k].tunToConn = "done"]
    /\ UNCHANGED <<others, serverVars, ipGen>>

\* A select that goes on only when both channels are closed.
serveConn_SelectMut(k) ==
    /\ ~crashed
    /\ sess[k].pc = "select"
    /\ sess[k].connToTun = "done" /\ sess[k].tunToConn = "done"
    /\ sess' = [sess EXCEPT ![k].pc = "return"]
    /\ UNCHANGED <<others, serverVars, ipGen>>

\* The client closes the connection of a session that relays: the reads of
\* io.Copy(tun, conn), line 217, end from then on.
Conn_ClosedByPeer(k) ==
    /\ ~crashed
    /\ sess[k].pc = "select"
    /\ sess[k].conn = "open"
    /\ sess' = [sess EXCEPT ![k].conn = "peer"]
    /\ UNCHANGED <<others, serverVars, ipGen>>

\* The interface of a session that relays is taken down from outside the
\* program: the reads of io.Copy(conn, tun), line 224, fail from then on.
TUN_Lost(k) ==
    /\ ~crashed
    /\ sess[k].pc = "select"
    /\ sess[k].tun = "open"
    /\ sess' = [sess EXCEPT ![k].tun = "lost"]
    /\ UNCHANGED <<others, serverVars, ipGen>>

\* serveConn, lines 229-234: either channel is closed and serveConn returns.
serveConn_Select(k) ==
    /\ ~crashed
    /\ sess[k].pc = "select"
    /\ sess[k].connToTun = "done" \/ sess[k].tunToConn = "done"
    /\ sess' = [sess EXCEPT ![k].pc = "return"]
    /\ UNCHANGED <<others, serverVars, ipGen>>

\* Deferred calls of which closeConn leaves the connection open.
serveConn_RunDeferredMut(k) ==
    /\ ~crashed
    /\ sess[k].pc = "return"
    /\ sess[k].defers # <<>>
    /\ LET d == NextDeferred(sess[k].defers) IN
       sess' = [sess EXCEPT
           ![k].defers = Pop(@),
           ![k].ops = IF d = "releaseSysPrivileges" THEN Append(@, Op(d, TRUE)) ELSE @,
           ![k].priv = IF d = "releaseSysPrivileges" THEN FALSE ELSE @,
           ![k].tun = IF d = "tun.Close" /\ @ = "open" THEN "closed" ELSE @,
           ![k].closeLog = IF d = "tun.Close" THEN Append(@, "tun")
                           ELSE IF d = "closeConn" THEN Append(@, "conn") ELSE @]
    /\ UNCHANGED <<others, serverVars, ipGen>>

\* serveConn, lines 170, 183, 190-195, and closeConn, lines 163-167: one
\* deferred call runs.
serveConn_RunDeferred(k) ==
    /\ ~crashed
    /\ sess[k].pc = "return"
    /\ sess[k].defers # <<>>
    /\ LET d == NextDeferred(sess[k].defers) IN
       sess' = [sess EXCEPT
           ![k].defers = Pop(@),
           ![k].ops = IF d = "releaseSysPrivileges" THEN Append(@, Op(d, TRUE)) ELSE @,
           ![k].priv = IF d = "releaseSysPrivileges" THEN FALSE ELSE @,
           ![k].tun = IF d = "tun.Close" /\ @ = "open" THEN "closed" ELSE @,
           ![k].conn = IF d = "closeConn" /\ @ = "open" THEN "closed" ELSE @,
           ![k].closeLog = IF d = "tun.Close" THEN Append(@, "tun")
                           ELSE IF d = "closeConn" THEN Append(@, "conn") ELSE @]
    /\ UNCHANGED <<others, serverVars, ipGen>>

\* A return that gives the session's block back to the pool.
serveConn_ReturnMut(k) ==
    /\ ~crashed
    /\ sess[k].pc = "return"
    /\ sess[k].defers = <<>>
    /\ sess' = [sess EXCEPT ![k].pc = "done"]
    /\ ipGen' = IF sess[k].subnet = NoIP THEN ipGen
              ELSE [ipGen EXCEPT !.cursor = 0,
                                 !.allocated = @ \ {BlockOf(sess[k].subnet)}]
    /\ UNCHANGED <<others, serverVars>>

\* serveConn, line 234 (and 175, 181, 188, 201): the goroutine is over.
serveConn_Return(k) ==
    /\ ~crashed
    /\ sess[k].pc = "return"
    /\ sess[k].defers = <<>>
    /\ sess' = [sess EXCEPT ![k].pc = "done"]
    /\ UNCHANGED <<others, serverVars, ipGen>>

Next ==
    \/ \E c \in Callers :
        \/ Serve_Enter(c)
        \/ Serve_AlreadyServing(c)
        \/ Serve_setupSysPrivileges(c)
        \/ Serve_EnableIPv4Forwarding(c)
        \/ Serve_EnableIPv6Forwarding(c)
        \/ Serve_EnableIPMasquerading(c)
        \/ Serve_releaseSysPrivileges(c)
        \/ Serve_StoreListener(c)
        \/ Serve_ReadListener(c)
        \/ Serve_AcceptConn(c)
        \/ Serve_AcceptFail(c)
        \/ Serve_RunDeferred(c)
        \/ Serve_Return(c)
    \/ Close
    \/ \E k \in Conns :
        \/ shakeHands_ReadJSON(k)
        \/ shakeHands_Passcode(k)
        \/ shakeHands_Reserve(k)
        \/ shakeHands_Next(k)
        \/ shakeHands_OctetsFail(k)
        \/ shakeHands_WriteJSON(k)
        \/ serveConn_setupSysPrivileges(k)
        \/ serveConn_newTUNDevice(k)
        \/ serveConn_SetupTUN(k)
        \/ serveConn_releaseSysPrivileges(k)
        \/ serveConn_StartRelays(k)
        \/ Relay_connToTun(k)
        \/ Relay_tunToConn(k)
        \/ serveConn_Select(k)
        \/ serveConn_RunDeferred(k)
        \/ serveConn_Return(k)
        \/ Conn_ClosedByPeer(k)
        \/ TUN_Lost(k)

Spec == Init /\ [][Next]_vars

\* ------------------------------------------------------------- the server alone
\* Serve and Close, the goroutines of the accepted connections left aside:
\* no step of a session changes a variable of the server.
NextServer ==
    \/ \E c \in Callers :
        \/ Serve_Enter(c)
        \/ Serve_AlreadyServing(c)
        \/ Serve_setupSysPrivileges(c)
        \/ Serve_EnableIPv4Forwarding(c)
        \/ Serve_EnableIPv6Forwarding(c)
        \/ Serve_EnableIPMasquerading(c)
        \/ Serve_releaseSysPrivileges(c)
        \/ Serve_StoreListener(c)
        \/ Serve_ReadListener(c)
        \/ Serve_AcceptConn(c)
        \/ Serve_AcceptFail(c)
        \/ Serve_RunDeferred(c)
        \/ Serve_Return(c)
    \/ Close

SpecServer == Init /\ [][NextServer]_vars

\* ------------------------------------------------------------- the sessions
\* The state in which the first Serve call, its setup done, enters the
\* accept loop (lines 71-132 all succeeded), the host's forwarding having
\* been off at construction.
Serving ==
    /\ OthersInit
    /\ cfgPasscode \in Passcodes
    /\ lis = 1
    /\ once = "running"
    /\ fwd4 = "1"
    /\ fwd6 = "1"
    /\ masq = TRUE
    /\ ipv4ForwardingVal = "0"
    /\ ipv6ForwardingVal = "0"
    /\ lisClosed = [l \in Callers |-> FALSE]
    /\ lisCloses = [l \in Callers |-> 0]
    /\ closeCalls = 0
    /\ closeRet = "none"
    /\ crashed = FALSE
    /\ firstCaller = 1
    /\ spc = [c \in Callers |-> IF c = 1 THEN "loop" ELSE "start"]
    /\ serveErr = [c \in Callers |-> IF c = 1 THEN AlreadyServing ELSE "none"]
    /\ sdefers = [c \in Callers |->
                    IF c = 1
                    THEN <<"releaseSysPrivileges", "SetIPv4ForwardingValue",
                           "SetIPv6ForwardingValue", "DisableIPMasquerading",
                           "setupSysPrivileges">>
                    ELSE <<>>]
    /\ panicking = [c \in Callers |-> FALSE]
    /\ localLis = [c \in Callers |-> NoLis]
    /\ ops = [c \in Callers |->
                IF c = 1
                THEN <<Op("setupSysPrivileges", TRUE), Op("EnableIPv4Forwarding", TRUE),
                       Op("EnableIPv6Forwarding", TRUE), Op("EnableIPMasquerading", TRUE),
                       Op("releaseSysPrivileges", TRUE)>>
                ELSE <<>>]
    /\ acceptCalls = [c \in Callers |-> 0]
    /\ spriv = [c \in Callers |-> FALSE]
    /\ nconn = 0
    /\ sess = [k \in Conns |-> NoSession]
    /\ ipGen = NewIPGenerator

\* The accept loop, Close and the sessions.
NextSessions ==
    \/ \E c \in Callers :
        \/ Serve_ReadListener(c)
        \/ Serve_AcceptConn(c)
    \/ Close
    \/ \E k \in Conns :
        \/ shakeHands_ReadJSON(k)
        \/ shakeHands_Passcode(k)
        \/ shakeHands_Reserve(k)
        \/ shakeHands_Next(k)
        \/ shakeHands_OctetsFail(k)
        \/ shakeHands_WriteJSON(k)
        \/ serveConn_setupSysPrivileges(k)
        \/ serveConn_newTUNDevice(k)
        \/ serveConn_SetupTUN(k)
        \/ serveConn_releaseSysPrivileges(k)
        \/ serveConn_StartRelays(k)
        \/ Relay_connToTun(k)
        \/ Relay_tunToConn(k)
        \/ serveConn_Select(k)
        \/ serveConn_RunDeferred(k)
        \/ serveConn_Return(k)

InitSessions == Serving /\ clients = MaxSessions

SpecSessions == InitSessions /\ [][NextSessions]_vars

\* The accept loop to its end, Close and the sessions.
NextShutdown ==
    \/ NextSessions
    \/ \E c \in Callers :
        \/ Serve_AcceptFail(c)
        \/ Serve_RunDeferred(c)
        \/ Serve_Return(c)

SpecShutdown == InitSessions /\ [][NextShutdown]_vars

\* The accept loop and the handshakes.
NextHandshakes ==
    \/ \E c \in Callers :
        \/ Serve_ReadListener(c)
        \/ Serve_AcceptConn(c)
    \/ \E k \in Conns :
        \/ shakeHands_ReadJSON(k)
        \/ shakeHands_Passcode(k)
        \/ shakeHands_Reserve(k)
        \/ shakeHands_Next(k)
        \/ shakeHands_OctetsFail(k)
        \/ shakeHands_WriteJSON(k)

InitHandshakes == Serving /\ clients = NumConns

SpecHandshakes == InitHandshakes /\ [][NextHandshakes]_vars

\* The accept loop and the sessions from handshake to return, Close never
\* called.
NextConns ==
    \/ \E c \in Callers :
        \/ Serve_ReadListener(c)
        \/ Serve_AcceptConn(c)
    \/ \E k \in Conns :
        \/ shakeHands_ReadJSON(k)
        \/ shakeHands_Passcode(k)
        \/ shakeHands_Reserve(k)
        \/ shakeHands_Next(k)
        \/ shakeHands_OctetsFail(k)
        \/ shakeHands_WriteJSON(k)
        \/ serveConn_setupSysPrivileges(k)
        \/ serveConn_newTUNDevice(k)
        \/ serveConn_SetupTUN(k)
        \/ serveConn_releaseSysPrivileges(k)
        \/ serveConn_StartRelays(k)
        \/ Relay_connToTun(k)
        \/ Relay_tunToConn(k)
        \/ serveConn_Select(k)
        \/ serveConn_RunDeferred(k)
        \/ serveConn_Return(k)

SpecConns == InitHandshakes /\ [][NextConns]_vars

\* The serveConn goroutine is scheduled: a select with a closed channel goes
\* on, the deferred calls run and return. Nothing makes a relay end: io.Copy
\* blocks for as long as its endpoints give it nothing.
FairServeConn ==
    \A k \in Conns :
        /\ WF_vars(serveConn_Select(k))
        /\ WF_vars(serveConn_RunDeferred(k))
        /\ WF_vars(serveConn_Return(k))

SpecRelayFair == InitSessions /\ [][NextConns]_vars /\ FairServeConn

\* The goroutine of Serve is scheduled, and Accept returns a client that
\* waits. Nothing makes a session move.
FairAccept ==
    \A c \in Callers :
        /\ WF_vars(Serve_ReadListener(c))
        /\ WF_vars(Serve_AcceptConn(c))

SpecAcceptFair == InitHandshakes /\ [][NextConns]_vars /\ FairAccept

\* The session on the block of index b once its relays are started:
\* handshake, provisioning and both privilege calls went well (lines 172-227).
RelayingSession(b) ==
    LET subnetOctets == fetchIPv4Octets(BaseOf(b)) IN
    [NewSession EXCEPT
        !.pc = "select",
        !.subnet = BaseOf(b),
        !.sent = <<[ZeroServerHello EXCEPT !.TUNIP = cTUNIP(subnetOctets),
                                           !.TUNGateway = cTUNGateway(subnetOctets)]>>,
        !.tunIP = sTUNIP(subnetOctets),
        !.tunGateway = sTUNGateway(subnetOctets),
        !.defers = <<"closeConn", "releaseSysPrivileges", "tun.Close">>,
        !.tun = "open",
        !.tunCfg = <<sTUNIP(subnetOctets), sTUNGateway(subnetOctets)>>,
        !.priv = TRUE,
        !.ops = <<Op("setupSysPrivileges", TRUE), Op("newTUNDevice", TRUE),
                  Op("SetupTUN", TRUE), Op("releaseSysPrivileges", TRUE),
                  Op("setupSysPrivileges", TRUE)>>,
        !.connToTun = "running",
        !.tunToConn = "running"]

\* The state in which every client has connected and every session relays,
\* the sessions on the blocks of the pool in the order they were accepted.
AllRelaying ==
    /\ OthersInit
    /\ cfgPasscode \in Passcodes
    /\ clients = NumConns
    /\ lis = 1
    /\ once = "running"
    /\ fwd4 = "1"
    /\ fwd6 = "1"
    /\ masq = TRUE
    /\ ipv4ForwardingVal = "0"
    /\ ipv6ForwardingVal = "0"
    /\ lisClosed = [l \in Callers |-> FALSE]
    /\ lisCloses = [l \in Callers |-> 0]
    /\ closeCalls = 0
    /\ closeRet = "none"
    /\ crashed = FALSE
    /\ firstCaller = 1
    /\ spc = [c \in Callers |-> IF c = 1 THEN "loop" ELSE "start"]
    /\ serveErr = [c \in Callers |-> IF c = 1 THEN AlreadyServing ELSE "none"]
    /\ sdefers = [c \in Callers |->
                    IF c = 1
                    THEN <<"releaseSysPrivileges", "SetIPv4ForwardingValue",
                           "SetIPv6ForwardingValue", "DisableIPMasquerading",
                           "setupSysPrivileges">>
                    ELSE <<>>]
    /\ panicking = [c \in Callers |-> FALSE]
    /\ localLis = [c \in Callers |-> IF c = 1 THEN 1 ELSE NoLis]
    /\ ops = [c \in Callers |->
                IF c = 1
                THEN <<Op("setupSysPrivileges", TRUE), Op("EnableIPv4Forwarding", TRUE),
                       Op("EnableIPv6Forwarding", TRUE), Op("EnableIPMasquerading", TRUE),
                       Op("releaseSysPrivileges", TRUE)>>
                ELSE <<>>]
    /\ acceptCalls = [c \in Callers |-> IF c = 1 THEN NumConns ELSE 0]
    /\ spriv = [c \in Callers |-> FALSE]
    /\ nconn = NumConns
    /\ sess = [k \in Conns |-> RelayingSession(k - 1)]
    /\ ipGen = [cursor |-> NumConns, reserved |-> {}, allocated |-> 0..(NumConns - 1)]

\* The relays and the teardown of the sessions, and the endpoints of a
\* relaying session closed from outside.
NextEndpoints ==
    \E k \in Conns :
        \/ Relay_connToTun(k)
        \/ Relay_tunToConn(k)
        \/ serveConn_Select(k)
        \/ serveConn_RunDeferred(k)
        \/ serveConn_Return(k)
        \/ Conn_ClosedByPeer(k)
        \/ TUN_Lost(k)

\* A read on a closed endpoint returns: io.Copy(tun, conn) ends once the
\* connection is closed, io.Copy(conn, tun) once the interface is.
FairRelays ==
    \A k \in Conns :
        /\ WF_vars(Relay_connToTun(k) /\ sess[k].conn # "open")
        /\ WF_vars(Relay_tunToConn(k) /\ sess[k].tun # "open")

SpecEndpointsFair ==
    AllRelaying /\ [][NextEndpoints]_vars /\ FairServeConn /\ FairRelays

\* ------------------------------------------------------------- properties
\* The names of the calls a Serve call made, in order.
RECURSIVE Names(_)
Names(log) == IF log = <<>> THEN <<>> ELSE <<log[1].op>> \o Names(Tail(log))
Restorations ==
    {"DisableIPMasquerading", "SetIPv6ForwardingValue", "SetIPv4ForwardingValue"}
IsRestoration(o) == o.op \in Restorations
\* The restoration calls a Serve call attempted, in order.
RestoreLog(c) == SelectSeq(ops[c], IsRestoration)
Succeeded(c, name) == \E i \in 1..Len(ops[c]) : ops[c][i] = Op(name, TRUE)
Attempted(c, name) == \E i \in 1..Len(ops[c]) : ops[c][i].op = name
\* The Serve call is past the accept loop: an Accept failed or the call panicked.
LeftLoop(c) ==
    /\ spc[c] \in {"return", "returned", "panicked"}
    /\ acceptCalls[c] > 0 \/ panicking[c]
Over(c) == spc[c] \in {"returned", "panicked"}
EnableErrors ==
    {"error enabling IPv4 forwarding", "error enabling IPv6 forwarding",
     "error enabling IP masquerading"}

\* C1: of all Serve calls on one Server only the first runs the setup
\* sequence; every other call makes no privileged or network call, stores no
\* listener, accepts on none, and returns "already serving".
C1_OnlyFirstServeRuns ==
    \A c \in Callers :
        c # firstCaller =>
            /\ spc[c] \in {"start", "returned"}
            /\ ops[c] = <<>>
            /\ ~spriv[c]
            /\ acceptCalls[c] = 0
            /\ localLis[c] = NoLis
            /\ lis # c
            /\ ~lisClosed[c]
            /\ spc[c] = "returned" => serveErr[c] = AlreadyServing

\* C1, its case: a later call has returned after a first one that ran the
\* setup sequence and accepted.
C1_Witness ==
    \E c \in Callers :
        /\ firstCaller \notin {0, c}
        /\ spc[c] = "returned"
        /\ acceptCalls[firstCaller] > 0

\* C2: once Serve has left the accept loop the restorations run in the
\* order masquerading, IPv6 value, IPv4 value, and when Serve is over all
\* three have been attempted, whichever of them failed.
C2_TeardownOrder ==
    \A c \in Callers :
        LeftLoop(c) =>
            LET done == Names(RestoreLog(c))
                all == <<"DisableIPMasquerading", "SetIPv6ForwardingValue",
                         "SetIPv4ForwardingValue">>
            IN /\ Len(done) <= 3
               /\ done = SubSeq(all, 1, Len(done))
               /\ Over(c) => done = all

\* C2, its case: Serve is over after the accept loop, the first restoration
\* failed and the other two were attempted.
C2_Witness ==
    \E c \in Callers :
        /\ LeftLoop(c)
        /\ Over(c)
        /\ Len(RestoreLog(c)) = 3
        /\ ~RestoreLog(c)[1].ok

\* C3: a Serve whose enable step failed never reaches the accept loop, and
\* when it has returned every enable step that succeeded has had its
\* restoration attempted.
C3_FailedEnableRestores ==
    \A c \in Callers :
        serveErr[c] \in EnableErrors =>
            /\ spc[c] \in {"return", "returned"}
            /\ acceptCalls[c] = 0
            /\ localLis[c] = NoLis
            /\ lis # c
            /\ spc[c] = "returned" =>
                /\ Succeeded(c, "EnableIPv4Forwarding")
                        => Attempted(c, "SetIPv4ForwardingValue")
                /\ Succeeded(c, "EnableIPv6Forwarding")
                        => Attempted(c, "SetIPv6ForwardingValue")
                /\ Succeeded(c, "EnableIPMasquerading")
                        => Attempted(c, "DisableIPMasquerading")

\* C3, its case: masquerading failed to enable after both forwardings were
\* enabled, and Serve has returned.
C3_Witness ==
    \E c \in Callers :
        /\ spc[c] = "returned"
        /\ serveErr[c] = "error enabling IP masquerading"
        /\ Succeeded(c, "EnableIPv4Forwarding")
        /\ Succeeded(c, "EnableIPv6Forwarding")

\* C4: once Close has closed the listener of a running Serve, Serve never
\* calls Accept on a cleared listener reference, and its only outcome is to
\* return the accept failure after the whole teardown.
C4_CloseEndsServe ==
    \A c \in Callers :
        lisClosed[c] =>
            /\ ~panicking[c]
            /\ spc[c] # "panicked"
            /\ spc[c] = "Accept" => localLis[c] = c
            /\ spc[c] = "returned" =>
                   /\ serveErr[c] = "failed to accept client connection"
                   /\ Len(RestoreLog(c)) = 3

\* The sessions in flight.
Ended(r) == r.pc \in {"return", "done", "killed"}
\* What ends a session: its handshake failed, a provisioning call of it
\* failed before the relays were started, or a relay of it terminated.
OwnCause(r) ==
    \/ r.err # "none"
    \/ r.connToTun = "none" /\ r.ops # <<>> /\ ~r.ops[Len(r.ops)].ok
    \/ r.connToTun = "done"
    \/ r.tunToConn = "done"

\* C5: a Close changes nothing in any session (no connection or interface
\* closed, no relay stopped), and a session, whether or not Close was called
\* while it was under way, ends only by a step that leaves it with a cause
\* of its own.
C5_CloseLeavesSessions ==
    [][/\ closeCalls' # closeCalls => sess' = sess
       /\ \A k \in Conns :
            (Ended(sess'[k]) /\ ~Ended(sess[k])) => OwnCause(sess'[k])]_vars

\* The status each handshake error is answered with.
StatusOf(e) ==
    CASE e = "got wrong passcode from client" -> HandshakeStatusForbidden
      [] e = "error reserving IP" -> HandshakeStatusBadRequest
      [] e = "error getting free subnet IP" -> HandshakeNoFreeIPs
      [] e = "error breaking IP into octets" -> HandshakeStatusInternalError
      [] e = "error finishing handshake" -> HandshakeStatusOK
InHandshake(r) == r.pc \in {"ReadJSON", "Passcode", "Reserve", "fetchIPv4Octets"}

\* C6: a handshake sends no ServerHello before its outcome, none at all when
\* decoding the ClientHello fails, and exactly one, of the status of its
\* path, on every other path; it ends in an error or in the address pair,
\* never both.
C6_OneServerHello ==
    \A k \in Conns :
        LET r == sess[k] IN
        /\ Len(r.sent) <= 1
        /\ InHandshake(r) => r.sent = <<>> /\ r.err = "none" /\ r.tunIP = NoIP
        /\ r.err = "error reading client hello" => r.sent = <<>>
        /\ r.err \notin {"none", "error reading client hello"} =>
               Len(r.sent) = 1 /\ r.sent[1].Status = StatusOf(r.err)
        /\ r.tunIP # NoIP =>
               Len(r.sent) = 1 /\ r.sent[1].Status = HandshakeStatusOK
        /\ ~(r.err # "none" /\ r.tunIP # NoIP)
        /\ (r.pc # "none" /\ ~InHandshake(r)) => (r.err # "none" \/ r.tunIP # NoIP)

\* C6, its case: one handshake failed to decode or was refused for its
\* malformed address, and another sent OK.
C6_Witness ==
    \E j, k \in Conns :
        /\ sess[j].err \in {"error reading client hello", "error reserving IP"}
        /\ sess[k].tunIP # NoIP

\* C7: a handshake whose ClientHello carries a passcode other than the
\* server's non-empty one is answered Forbidden by its next step, and neither
\* that step nor the read before it changes the pool: no Reserve, no Next.
C7_ForbiddenLeavesPool ==
    [][\A k \in Conns :
        /\ (sess[k].pc = "ReadJSON" /\ sess'[k] # sess[k]) =>
               /\ ipGen' = ipGen
               /\ sess'[k].ri = 1
               /\ sess'[k].subnet = NoIP
        /\ ( /\ sess[k].pc = "Passcode"
             /\ cfgPasscode # ""
             /\ sess[k].cHello.Passcode # cfgPasscode
             /\ sess'[k] # sess[k] ) =>
               /\ sess'[k].err = "got wrong passcode from client"
               /\ sess'[k].sent =
                      <<ServerHello(HandshakeStatusForbidden, NoIP, NoIP)>>
               /\ Ended(sess'[k])
               /\ sess'[k].ri = 1
               /\ sess'[k].subnet = NoIP
               /\ ipGen' = ipGen]_vars

\* C7, its case: a handshake that declared an unavailable address was
\* answered Forbidden; its address is not reserved, while the pool has
\* served another handshake.
C7_Witness ==
    \E k \in Conns :
        /\ sess[k].err = "got wrong passcode from client"
        /\ sess[k].cHello.UnavailablePrivateIPs # <<>>
        /\ ipGen.reserved = {}
        /\ ipGen.allocated # {}

\* C8: a session whose handshake ended in an error (a status other than OK,
\* a decode failure, a failed send) acquires no privilege, creates and
\* configures no interface and starts no relay; it only closes its connection.
C8_NoForwardingAfterFailure ==
    \A k \in Conns :
        LET r == sess[k] IN
        (r.err # "none" \/ (r.sent # <<>> /\ r.sent[1].Status # HandshakeStatusOK)) =>
            /\ r.err # "none"
            /\ Ended(r)
            /\ r.ops = <<>>
            /\ r.tun = "none"
            /\ r.tunCfg = <<>>
            /\ r.connToTun = "none"
            /\ r.tunToConn = "none"
            /\ r.closeLog \in {<<>>, <<"conn">>}
            /\ r.pc = "done" => r.closeLog = <<"conn">>

\* C8, its case: a session refused with BadRequest is over, its connection
\* closed.
C8_Witness ==
    \E k \in Conns :
        /\ sess[k].pc = "done"
        /\ sess[k].sent # <<>>
        /\ sess[k].sent[1].Status = HandshakeStatusBadRequest

\* C9: while a relay task of a session runs, the session holds no elevated
\* privilege.
C9_NoPrivilegeDuringRelay ==
    \A k \in Conns :
        (sess[k].connToTun = "running" \/ sess[k].tunToConn = "running")
            => ~sess[k].priv

\* The four addresses of a session.
AddrsOf(r) == {r.sent[1].TUNIP, r.sent[1].TUNGateway, r.tunIP, r.tunGateway}

\* C10: a successful handshake on the block of base B sends
\* ServerHello{OK, B+4, B+3} and returns IP B+2 and gateway B+1, and the
\* four addresses of one session are distinct from those of any other.
C10_BlockAddresses ==
    \A k \in Conns :
        LET r == sess[k] IN
        r.tunIP # NoIP =>
            /\ r.sent = <<ServerHello(HandshakeStatusOK, r.subnet + 4, r.subnet + 3)>>
            /\ r.tunIP = r.subnet + 2
            /\ r.tunGateway = r.subnet + 1
            /\ \A j \in Conns \ {k} :
                   sess[j].tunIP # NoIP =>
                       /\ sess[j].subnet # r.subnet
                       /\ AddrsOf(sess[j]) \cap AddrsOf(r) = {}

\* C10, its case: two handshakes succeeded on the same pool, the first on
\* the pool's first block and the second on the block after it.
C10_Witness ==
    /\ sess[1].tunIP # NoIP
    /\ sess[2].tunIP # NoIP
    /\ sess[1].subnet = PoolStart
    /\ sess[2].subnet = PoolStart + BlockSize

\* The addresses of the block of base b.
BlockRange(b) == b..(b + BlockSize - 1)
\* The handshakes that obtained a block from Next.
Holders == {k \in Conns : sess[k].subnet # NoIP}

\* C11: the blocks any two handshakes obtained from Next share no address,
\* and finding a block and marking it are one step: at every moment the
\* blocks marked allocated are exactly the blocks the handshakes hold, one
\* handshake to a block.
C11_ConcurrentNextDisjoint ==
    /\ \A j, k \in Holders :
           j # k => BlockRange(sess[j].subnet) \cap BlockRange(sess[k].subnet) = {}
    /\ {BlockOf(sess[k].subnet) : k \in Holders} = ipGen.allocated
    /\ Cardinality(Holders) = Cardinality(ipGen.allocated)

\* C11, its case: two handshakes are under way at once, both past Next and
\* neither finished, each holding a block.
C11_Witness ==
    \E j, k \in Conns :
        /\ j # k
        /\ sess[j].pc = "fetchIPv4Octets"
        /\ sess[k].pc = "fetchIPv4Octets"
        /\ sess[j].subnet # sess[k].subnet
\* The addresses the ClientHello of a handshake declares unavailable.
Declared(r) ==
    {r.cHello.UnavailablePrivateIPs[i] : i \in 1..Len(r.cHello.UnavailablePrivateIPs)}

\* C12: the step by which a handshake obtains its block finds every address
\* its ClientHello declared already reserved, and returns a block that
\* contains no address reserved before that step, by this handshake or by
\* any other.
C12_ReservedBeforeNext ==
    [][\A k \in Conns :
        (sess[k].subnet = NoIP /\ sess'[k].subnet # NoIP) =>
            /\ \A a \in Declared(sess[k]) :
                   /\ a # Malformed
                   /\ BlockOf(a) \in ipGen.reserved
                   /\ a \notin BlockRange(sess'[k].subnet)
            /\ BlockOf(sess'[k].subnet) \notin ipGen.reserved
            /\ ipGen'.reserved = ipGen.reserved]_vars

\* C12, its case: a handshake that declared an address of the pool's first
\* block holds the second block, the first one handed to nobody.
C12_Witness ==
    \E k \in Conns :
        /\ sess[k].pc = "fetchIPv4Octets"
        /\ (PoolStart + 1) \in Declared(sess[k])
        /\ sess[k].subnet = BaseOf(1)
        /\ 0 \in ipGen.reserved
        /\ 0 \notin ipGen.allocated
\* The blocks of the pool neither handed out nor reserved.
Unused(g) == {b \in 0..(NumBlocks - 1) : b \notin g.allocated \cup g.reserved}
\* The handshake is authenticated and well-formed and about to call Next.
AtNext(r) == r.pc = "Reserve" /\ r.ri > Len(r.cHello.UnavailablePrivateIPs)

\* C13: no step, of a handshake or of a session that ends, takes a block out
\* of the allocated or the reserved ones; the blocks the sessions got, ended
\* or not, share no address; and a handshake that calls Next when every block
\* is allocated or reserved is answered NoFreeIPs and gets none.
C13_BlocksNeverReclaimed ==
    [][/\ ipGen.allocated \subseteq ipGen'.allocated
       /\ ipGen.reserved \subseteq ipGen'.reserved
       /\ \A j, k \in Conns :
              (j # k /\ sess'[j].subnet # NoIP /\ sess'[k].subnet # NoIP) =>
                  BlockRange(sess'[j].subnet) \cap BlockRange(sess'[k].subnet) = {}
       /\ \A k \in Conns :
              (AtNext(sess[k]) /\ sess'[k] # sess[k] /\ Unused(ipGen) = {}) =>
                  /\ sess'[k].err = "error getting free subnet IP"
                  /\ sess'[k].sent = <<ServerHello(HandshakeNoFreeIPs, NoIP, NoIP)>>
                  /\ sess'[k].subnet = NoIP
                  /\ ipGen' = ipGen]_vars

\* C13, its case: the session that got the pool's last free block is over,
\* its connection closed, and the other handshake was answered NoFreeIPs.
C13_Witness ==
    \E j, k \in Conns :
        /\ sess[j].pc = "done"
        /\ sess[j].subnet # NoIP
        /\ Unused(ipGen) = {}
        /\ sess[k].err = "error getting free subnet IP"
\* The session is torn down: serveConn is over, the interface closed and
\* then the connection.
TornDown(r) ==
    /\ r.pc = "done"
    /\ r.tun \in {"closed", "lost"}
    /\ r.conn \in {"closed", "peer"}
    /\ r.closeLog = <<"tun", "conn">>
RelayEnded(r) == r.connToTun = "done" \/ r.tunToConn = "done"
Relaying(r) == r.connToTun # "none"

\* C14: a session that started its relays leaves the select only when a
\* relay has ended, and once either relay has ended the session is torn
\* down, whether or not the other relay ever ends.
C14_TornDownOnFirstRelayEnd ==
    /\ [](\A k \in Conns :
            (Relaying(sess[k]) /\ sess[k].pc # "select") => RelayEnded(sess[k]))
    /\ \A k \in Conns : RelayEnded(sess[k]) ~> TornDown(sess[k])

\* C14, its case: a session is torn down after the relay from the connection
\* ended, the relay from the interface still running.
C14_Witness ==
    \E k \in Conns :
        /\ TornDown(sess[k])
        /\ sess[k].connToTun = "done"
        /\ sess[k].tunToConn = "running"
\* C15: once the connection or the interface of a relaying session is
\* closed, both relays of the session end and the session is torn down; and
\* a step of one session (an endpoint of it closed, a relay of it ended, its
\* teardown) changes nothing in any other.
C15_EndpointCloseEndsSession ==
    /\ \A k \in Conns :
           (Relaying(sess[k]) /\ (sess[k].conn # "open" \/ sess[k].tun # "open"))
               ~> ( /\ sess[k].connToTun = "done"
                    /\ sess[k].tunToConn = "done"
                    /\ TornDown(sess[k]) )
    /\ [][\A j, k \in Conns :
            (j # k /\ sess'[k] # sess[k]) => sess'[j] = sess[j]]_vars

\* C15, its case: the client of one session closed its connection, both
\* relays of that session ended and it is torn down, while another session
\* goes on relaying, both its endpoints open.
C15_Witness ==
    \E j, k \in Conns :
        /\ sess[k].conn = "peer"
        /\ sess[k].connToTun = "done"
        /\ sess[k].tunToConn = "done"
        /\ TornDown(sess[k])
        /\ sess[j].pc = "select"
        /\ sess[j].connToTun = "running"
        /\ sess[j].tunToConn = "running"
        /\ sess[j].conn = "open"
        /\ sess[j].tun = "open"
\* A provisioning call of the session failed: the privilege acquisition of
\* line 178, the creation of the interface or its configuration.
ProvisioningFailed(r) ==
    \E i \in 1..Len(r.ops) :
        /\ ~r.ops[i].ok
        /\ \/ r.ops[i].op \in {"newTUNDevice", "SetupTUN"}
           \/ r.ops[i].op = "setupSysPrivileges" /\ i = 1

\* C16: a session whose handshake was OK and whose provisioning failed is
\* returning or over: it starts no relay, its one ServerHello stays the only
\* one and its block stays allocated; when it is over its connection is
\* closed, last of all, and no interface of it is left open.
C16_ProvisioningFailureEndsSession ==
    \A k \in Conns :
        LET r == sess[k] IN
        ProvisioningFailed(r) =>
            /\ r.pc \in {"return", "done"}
            /\ r.connToTun = "none"
            /\ r.tunToConn = "none"
            /\ r.sent = <<ServerHello(HandshakeStatusOK, r.subnet + 4, r.subnet + 3)>>
            /\ r.err = "none"
            /\ BlockOf(r.subnet) \in ipGen.allocated
            /\ r.pc = "done" =>
                   /\ r.conn = "closed"
                   /\ r.closeLog # <<>>
                   /\ r.closeLog[Len(r.closeLog)] = "conn"
                   /\ r.tun # "open"
                   /\ r.priv = FALSE

\* C16, its case: the configuration of the interface failed and the session
\* is over, interface and connection closed, its block still allocated.
C16_Witness ==
    \E k \in Conns :
        /\ sess[k].pc = "done"
        /\ sess[k].ops = <<Op("setupSysPrivileges", TRUE), Op("newTUNDevice", TRUE),
                           Op("SetupTUN", FALSE), Op("releaseSysPrivileges", TRUE)>>
        /\ sess[k].closeLog = <<"tun", "conn">>
        /\ BlockOf(sess[k].subnet) \in ipGen.allocated
\* The Serve call is in its accept loop.
Accepting(c) == spc[c] \in {"loop", "Accept"} /\ ~panicking[c]

\* C17: every client that connects is accepted, whatever the sessions
\* accepted before it do or fail to do; Serve stays in its accept loop; and
\* a step of a session (a handshake, provisioning or relay step, failed or
\* not) changes nothing of Serve.
C17_AcceptLoopIndependent ==
    /\ <>(nconn = clients)
    /\ [](Accepting(firstCaller) /\ serveErr[firstCaller] = AlreadyServing)
    /\ [][(sess' # sess /\ nconn' = nconn) => UNCHANGED serverVars]_vars

\* C17, its case: Serve waits in Accept again while the first session it
\* accepted relays and the second is over, its handshake failed.
C17_Witness ==
    /\ spc[firstCaller] = "Accept"
    /\ nconn = clients
    /\ sess[1].pc = "select"
    /\ sess[2].pc = "done"
    /\ sess[2].err # "none"
\* No restoration the Serve call attempted failed.
RestoresSucceeded(c) == \A i \in 1..Len(RestoreLog(c)) : RestoreLog(c)[i].ok

\* C18: no step writes the forwarding values snapshotted at construction,
\* and when the Serve call that ran is over, none of its restorations having
\* failed, the host's forwarding values are the snapshotted ones and
\* masquerading is disabled.
C18_SnapshotRestored ==
    /\ [][/\ ipv4ForwardingVal' = ipv4ForwardingVal
           /\ ipv6ForwardingVal' = ipv6ForwardingVal]_vars
    /\ [](\A c \in Callers :
            (c = firstCaller /\ Over(c) /\ RestoresSucceeded(c)) =>
                /\ fwd4 = ipv4ForwardingVal
                /\ fwd6 = ipv6ForwardingVal
                /\ masq = FALSE)

\* C18, its case: forwarding was off at construction, Serve enabled it and
\* masquerading, accepted, and has returned with all three restored.
C18_Witness ==
    \E c \in Callers :
        /\ spc[c] = "returned"
        /\ acceptCalls[c] > 0
        /\ Len(RestoreLog(c)) = 3
        /\ RestoresSucceeded(c)
        /\ ipv4ForwardingVal = "0"
        /\ ipv6ForwardingVal = "0"
        /\ fwd4 = "0"
        /\ fwd6 = "0"
\* The privilege calls of a log: the acquisitions that succeeded, the releases.
Acquisitions(log) ==
    Cardinality({i \in 1..Len(log) : log[i] = Op("setupSysPrivileges", TRUE)})
Releases(log) ==
    Cardinality({i \in 1..Len(log) : log[i].op = "releaseSysPrivileges"})

\* C19: when a Serve call is over it has released privilege as many times as
\* it acquired it, and holds none.
C19_PrivilegeBalanced ==
    \A c \in Callers :
        Over(c) =>
            /\ Releases(ops[c]) = Acquisitions(ops[c])
            /\ ~spriv[c]
C21_FailedSendKeepsBlock ==
    \A k \in Conns :
        LET r == sess[k] IN
        r.err = "error finishing handshake" =>
            /\ r.sent = <<ServerHello(HandshakeStatusOK, r.subnet + 4, r.subnet + 3)>>
            /\ r.tunIP = NoIP
            /\ r.tunGateway = NoIP
            /\ r.subnet # NoIP
            /\ BlockOf(r.subnet) \in ipGen.allocated
            /\ r.pc \in {"return", "done"}
            /\ r.ops = <<>>
            /\ r.tun = "none"
            /\ r.tunCfg = <<>>
            /\ r.connToTun = "none"
            /\ r.tunToConn = "none"

\* C21, its case: the session whose OK ServerHello failed to send is over,
\* its connection closed, and the pool's first block is still allocated.
C21_Witness ==
    \E k \in Conns :
        /\ sess[k].err = "error finishing handshake"
        /\ sess[k].pc = "done"
        /\ sess[k].closeLog = <<"conn">>
        /\ sess[k].subnet = PoolStart
        /\ ipGen.allocated = {0}
\* The number of times the session closed the endpoint e.
Closes(r, e) == Cardinality({i \in 1..Len(r.closeLog) : r.closeLog[i] = e})
\* The session's interface was created.
Created(r) == \E i \in 1..Len(r.ops) : r.ops[i] = Op("newTUNDevice", TRUE)

\* C22: a session closes its connection and its interface at most once each,
\* the interface only if it was created and never after the connection; when
\* serveConn is over, by whichever path, the connection was closed once and
\* the interface once if it was created.
C22_ClosedExactlyOnce ==
    \A k \in Conns :
        LET r == sess[k] IN
        /\ r.closeLog \in {<<>>, <<"tun">>, <<"conn">>, <<"tun", "conn">>}
        /\ Closes(r, "tun") > 0 => Created(r)
        /\ r.pc = "done" =>
               /\ Closes(r, "conn") = 1
               /\ Closes(r, "tun") = IF Created(r) THEN 1 ELSE 0
               /\ r.defers = <<>>

\* C22, its case: a session that relayed is over, its interface closed and
\* then its connection.
C22_Witness ==
    \E k \in Conns :
        /\ sess[k].pc = "done"
        /\ sess[k].tunToConn = "done"
        /\ Created(sess[k])
        /\ sess[k].closeLog = <<"tun", "conn">>
\* C23: a Serve call attempts a restoration only after the enable step it
\* undoes succeeded in that call; a call that failed to enable IPv4
\* forwarding restores nothing, one that failed to enable IPv6 forwarding
\* restores at most the IPv4 value, one that failed to enable masquerading
\* never disables it, and one that failed to acquire privilege made no other
\* call at all.
C23_RestoreOnlyWhatWasEnabled ==
    \A c \in Callers :
        /\ Attempted(c, "SetIPv4ForwardingValue") => Succeeded(c, "EnableIPv4Forwarding")
        /\ Attempted(c, "SetIPv6ForwardingValue") => Succeeded(c, "EnableIPv6Forwarding")
        /\ Attempted(c, "DisableIPMasquerading") => Succeeded(c, "EnableIPMasquerading")
        /\ serveErr[c] = "error enabling IPv4 forwarding" => RestoreLog(c) = <<>>
        /\ serveErr[c] = "error enabling IPv6 forwarding" =>
               /\ Names(RestoreLog(c)) \in {<<>>, <<"SetIPv4ForwardingValue">>}
               /\ spc[c] = "returned" =>
                      Names(RestoreLog(c)) = <<"SetIPv4ForwardingValue">>
        /\ serveErr[c] = "error enabling IP masquerading" =>
               ~Attempted(c, "DisableIPMasquerading")
        /\ serveErr[c] = "failed to setup system privileges" =>
               ops[c] = <<Op("setupSysPrivileges", FALSE)>>

\* C23, its case: a Serve call that failed to enable IPv6 forwarding has
\* returned, the IPv4 value restored and nothing else.
C23_Witness ==
    \E c \in Callers :
        /\ spc[c] = "returned"
        /\ serveErr[c] = "error enabling IPv6 forwarding"
        /\ RestoreLog(c) = <<Op("SetIPv4ForwardingValue", TRUE)>>
        /\ fwd4 = ipv4ForwardingVal
\* The errors of a Serve call that failed before it stored the listener.
SetupErrors == EnableErrors \cup {"failed to setup system privileges"}

\* C24: once a Serve call has entered the guarded function the guard is
\* never armed again; when that call has failed during setup and returned,
\* the guard is spent, no listener was stored and none accepted on, and every
\* other call has made no call of its own and returns "already serving".
C24_FailedSetupSpendsGuard ==
    /\ firstCaller # 0 => once # "idle"
    /\ \A f \in Callers :
        (f = firstCaller /\ spc[f] = "returned" /\ serveErr[f] \in SetupErrors) =>
            /\ once = "done"
            /\ lis = NoLis /\ nconn = 0
            /\ \A c \in Callers :
                /\ acceptCalls[c] = 0 /\ localLis[c] = NoLis
                /\ c # f =>
                    /\ spc[c] \in {"start", "returned"}
                    /\ ops[c] = <<>>
                    /\ spc[c] = "returned" => serveErr[c] = AlreadyServing

\* C24, its case: the first Serve call failed to acquire privilege and
\* returned, and a later call has returned "already serving".
C24_Witness ==
    \E f, c \in Callers :
        /\ f = firstCaller /\ c # f
        /\ spc[f] = "returned"
        /\ serveErr[f] = "failed to setup system privileges"
        /\ spc[c] = "returned" /\ serveErr[c] = AlreadyServing
        /\ once = "done"

\* Some listener has been closed by Server.Close.
ListenerClosed == \E l \in Callers : lisCloses[l] > 0

\* C25: Server.Close closes a listener at most once, and no second listener
\* after it; a Close that finds no listener stored returns nil and changes
\* nothing but the count of calls, so the Serve calls go on as they would
\* have without it; a Close made after one that closed the listener finds
\* none stored.
C25_ClosedAtMostOnce ==
    [][/\ \A l \in Callers : lisCloses'[l] <= 1
       /\ Cardinality({l \in Callers : lisCloses'[l] > 0}) <= 1
       /\ closeCalls' # closeCalls =>
            /\ ListenerClosed => lis = NoLis
            /\ lis = NoLis =>
                 /\ closeRet' = "nil"
                 /\ UNCHANGED <<lis, lisClosed, lisCloses, once, spc, serveErr,
                                sdefers, localLis, ops, acceptCalls, nconn, sess,
                                crashed, panicking>>
            /\ lis # NoLis =>
                 /\ lisCloses' = [lisCloses EXCEPT ![lis] = 1]
                 /\ lisClosed'[lis] /\ lis' = NoLis
                 /\ closeRet' \in CloseResults]_vars

\* C25, its case: every Close was made before Serve stored the listener,
\* returned nil and closed nothing, and Serve has stored the listener since
\* and accepted a connection on it.
C25_Witness ==
    \E c \in Callers :
        /\ closeCalls > 0 /\ closeRet = "nil"
        /\ ~ListenerClosed /\ ~lisClosed[c]
        /\ lis = c /\ localLis[c] = c
        /\ acceptCalls[c] > 0 /\ nconn > 0
        /\ spc[c] = "loop"
\* ------------------------------------------------------------- skychat: connection handler
\* The frame of a step of the connection handler service.
ChatFrame == UNCHANGED <<serverVars, sess, ipGen, net>>

\* GetConnByPK, lines 373-379.
GetConnByPK(pk) == IF pk \in DOMAIN ms.conns THEN ms.conns[pk] ELSE NoConn

\* ConnectionToPkHandled, lines 402-407.
ConnectionToPkHandled(pk) == pk \in DOMAIN ms.handledConns

\* AddConn, lines 382-389: the connection is stored unless the key has one.
AddConn(pk, conn) ==
    IF pk \in DOMAIN ms.conns THEN ms.conns ELSE (pk :> conn) @@ ms.conns

\* go ms.HandleConnection(pk), lines 241, 363: a goroutine is started.
Started(pk) == Append(ms.hnd, [pc |-> "GetConnByPK", pk |-> pk, connection |-> NoConn,
                               err |-> "none"])

\* Listen, lines 324-342: the listener is opened and one goroutine is started
\* that receives one error from ms.errs.
Listen_Start ==
    /\ ms.listen.pc = "none"
    /\ ms' = [ms EXCEPT !.listen.pc = "Accept", !.errsReader = "waiting"]
    /\ ChatFrame

\* Listen, lines 344-369, one turn of the loop: a connection from pk is
\* accepted, AddConn is called and its error printed, HandleConnection is
\* started all the same and DeleteConnFromHandled is deferred.
Listen_Accept(pk) ==
    /\ ms.listen.pc = "Accept"
    /\ ms.chatConns < MaxChatConns
    /\ Len(ms.hnd) < NumHandlers
    /\ ms' = [ms EXCEPT !.chatConns = @ + 1,
                        !.conns = AddConn(pk, ms.chatConns + 1),
                        !.hnd = Started(pk),
                        !.listen.defers = Append(@, pk)]
    /\ ChatFrame

\* The keys whose DeleteConnFromHandled Listen has deferred.
Deferred == {ms.listen.defers[i] : i \in 1..Len(ms.listen.defers)}

\* Listen, lines 346-350, 364-367: Accept fails and Listen returns; each
\* deferred DeleteConnFromHandled (lines 420-427) deletes its key from
\* ms.handledConns when it is there.
Listen_AcceptFail ==
    /\ ms.listen.pc = "Accept"
    /\ ms' = [ms EXCEPT !.listen = [pc |-> "returned", defers |-> <<>>],
                        !.handledConns = [pk \in DOMAIN @ \ Deferred |-> @[pk]]]
    /\ ChatFrame

\* Listen, lines 338-342: the goroutine receives one error and ends.
Listen_ReceiveErr ==
    /\ ms.errsReader = "waiting"
    /\ ms.errs # <<>>
    /\ ms' = [ms EXCEPT !.errs = Tail(@), !.errsReader = "done"]
    /\ ChatFrame

\* SendMessage, lines 229-242: no connection is kept for the destination, one
\* is dialled and added under the route's key, and HandleConnection is
\* started for that key unless AddConn failed.
SendMessage_Dial(dest, route) ==
    /\ GetConnByPK(dest) = NoConn
    /\ ms.chatConns < MaxChatConns
    /\ Len(ms.hnd) < NumHandlers
    /\ ms' = [ms EXCEPT !.chatConns = @ + 1,
                        !.conns = AddConn(route, ms.chatConns + 1),
                        !.hnd = IF route \in DOMAIN ms.conns THEN @ ELSE Started(route)]
    /\ ChatFrame

\* HandleConnection h is at position p.
HandlerAt(h, p) == h \in DOMAIN ms.hnd /\ ms.hnd[h].pc = p

\* HandleConnection, lines 54-58.
HandleConnection_GetConnByPK(h) ==
    /\ HandlerAt(h, "GetConnByPK")
    /\ ms' = IF GetConnByPK(ms.hnd[h].pk) = NoConn
             THEN [ms EXCEPT !.hnd[h].err = "no conn available with the requested visor",
                             !.hnd[h].pc = "sendReturn"]
             ELSE [ms EXCEPT !.hnd[h].connection = GetConnByPK(ms.hnd[h].pk),
                             !.hnd[h].pc = "ConnectionToPkHandled"]
    /\ ChatFrame

\* HandleConnection, lines 60-63.
HandleConnection_ConnectionToPkHandled(h) ==
    /\ HandlerAt(h, "ConnectionToPkHandled")
    /\ ms' = IF ConnectionToPkHandled(ms.hnd[h].pk)
             THEN [ms EXCEPT !.hnd[h].err = "connection already handled",
                             !.hnd[h].pc = "sendReturn"]
             ELSE [ms EXCEPT !.hnd[h].pc = "AddConnToHandled"]
    /\ ChatFrame

\* HandleConnection, lines 65-69, and AddConnToHandled, lines 410-417: the
\* key is looked up in ms.handledConns and the connection stored in ms.conns.
HandleConnection_AddConnToHandled(h) ==
    /\ HandlerAt(h, "AddConnToHandled")
    /\ ms' = IF ms.hnd[h].pk \in DOMAIN ms.handledConns
             THEN [ms EXCEPT !.hnd[h].err = "conn already added",
                             !.hnd[h].pc = "sendReturn"]
             ELSE [ms EXCEPT !.conns = (ms.hnd[h].pk :> ms.hnd[h].connection) @@ @,
                             !.hnd[h].pc = "loop"]
    /\ ChatFrame

\* HandleConnection, lines 71-93, one turn of the read loop: a message is
\* read, decoded and passed on, or one of the three steps fails.
HandleConnection_Read(h) ==
    /\ HandlerAt(h, "loop")
    /\ \/ /\ ms.msgrx < MaxMsgs
          /\ ms' = [ms EXCEPT !.msgrx = @ + 1]
       \/ ms' = [ms EXCEPT !.hnd[h].err = "read error", !.hnd[h].pc = "sendContinue"]
    /\ ChatFrame

\* HandleConnection, lines 56, 61, 67, 75, 81, 87: the error is sent on
\* ms.errs once the channel has room; the read loop goes on, the other
\* senders return.
HandleConnection_SendErr(h) ==
    /\ h \in DOMAIN ms.hnd
    /\ ms.hnd[h].pc \in {"sendReturn", "sendContinue"}
    /\ Len(ms.errs) < ErrsCap
    /\ ms' = [ms EXCEPT !.errs = Append(@, ms.hnd[h].err),
                        !.hnd[h].pc = IF @ = "sendContinue" THEN "loop" ELSE "returned"]
    /\ ChatFrame

NextChat ==
    \/ Listen_Start
    \/ \E pk \in PubKeys : Listen_Accept(pk)
    \/ Listen_AcceptFail
    \/ Listen_ReceiveErr
    \/ \E dest, route \in PubKeys : SendMessage_Dial(dest, route)
    \/ \E h \in Handlers :
        \/ HandleConnection_GetConnByPK(h)
        \/ HandleConnection_ConnectionToPkHandled(h)
        \/ HandleConnection_AddConnToHandled(h)
        \/ HandleConnection_Read(h)
        \/ HandleConnection_SendErr(h)

\* The VPN server as constructed on a host that forwards nothing, with no
\* passcode and no client to come.
ServerIdle ==
    ServerInit /\ cfgPasscode = "" /\ clients = 0 /\ fwd4 = "0" /\ fwd6 = "0"

\* The connection handler service alone.
InitChat == ServerIdle /\ ChatInit /\ NoNet

SpecChat == InitChat /\ [][NextChat]_vars

\* HandleConnection h has registered its connection as handled: its
\* AddConnToHandled returned no error.
Registered(h) == ms.hnd[h].pc \in {"loop", "sendContinue"}

\* C26: once a HandleConnection has registered the connection of a public
\* key as handled, ConnectionToPkHandled is true of that key, and no second
\* HandleConnection for the key runs a read loop on that connection.
C26_HandledOnce ==
    \A h \in DOMAIN ms.hnd :
        Registered(h) =>
            /\ ConnectionToPkHandled(ms.hnd[h].pk)
            /\ \A g \in DOMAIN ms.hnd \ {h} :
                ~(Registered(g) /\ ms.hnd[g].pk = ms.hnd[h].pk
                                /\ ms.hnd[g].connection = ms.hnd[h].connection)

\* ------------------------------------------------------------- snet: Network.Close
\* The frame of a step of Network.Close.
NetFrame == UNCHANGED <<serverVars, sess, ipGen, ms>>

\* Close, lines 284-290: n.netsMu is taken, the WaitGroup made and dmsgErr
\* declared.
Close_Lock ==
    /\ ~net.crashed
    /\ net.cls.pc = "idle"
    /\ ~net.netsMu
    /\ net' = [net EXCEPT !.netsMu = TRUE,
                          !.cls = [pc |-> "dmsg", wg |-> 0, dmsgErr |-> "nil"]]
    /\ NetFrame

\* A goroutine of Network.Close as it is started: res is what its client's
\* Close returned, k the key it read, raced that its write of the result
\* table overlapped another.
NewCloser(t) == [pc |-> "call", res |-> "none", k |-> t, raced |-> FALSE]

\* Close, lines 291-299: a goroutine is started for the dmsg client when
\* there is one, and the result table of the direct clients is made; the
\* range loop has all the entries of n.clients.Direct before it.
Close_StartDmsg ==
    /\ ~net.crashed
    /\ net.cls.pc = "dmsg"
    /\ net' = [net EXCEPT
                 !.cls = [pc |-> "range", wg |-> IF net.clients.DmsgC THEN 1 ELSE 0,
                          dmsgErr |-> @.dmsgErr, directErrors |-> EmptyMap,
                          remaining |-> DOMAIN net.clients.Direct, k |-> "none"],
                 !.gor = IF net.clients.DmsgC
                         THEN (DmsgType :> NewCloser(DmsgType)) @@ @ ELSE @]
    /\ NetFrame

\* Close, lines 301-309, one turn of the range loop, the entries in any
\* order: k and v are set, and for a client that is not nil a goroutine is
\* started.
Close_Range ==
    /\ ~net.crashed
    /\ net.cls.pc = "range"
    /\ IF net.cls.remaining = {}
       THEN net' = [net EXCEPT !.cls.pc = "Wait"]
       ELSE \E t \in net.cls.remaining :
            net' = [net EXCEPT
                      !.cls.k = t,
                      !.cls.remaining = @ \ {t},
                      !.cls.wg = IF net.clients.Direct[t] = "client" THEN @ + 1 ELSE @,
                      !.gor = IF net.clients.Direct[t] = "client"
                              THEN (t :> NewCloser(t)) @@ @ ELSE @]
    /\ NetFrame

\* What a client's Close returns.
DmsgResults == {"nil", "dmsg error"}
DirectResults == {"nil", "direct error"}

\* Goroutine g of Network.Close is at position p.
At(g, p) == g \in DOMAIN net.gor /\ net.gor[g].pc = p

\* Close, lines 294-295: the dmsg client is closed and dmsgErr set.
Closer_DmsgClose ==
    /\ ~net.crashed
    /\ At(DmsgType, "call")
    /\ \E res \in DmsgResults :
        net' = [net EXCEPT !.gor[DmsgType].res = res, !.gor[DmsgType].pc = "Done",
                           !.cls.dmsgErr = res,
                           !.closeCount[DmsgType] = @ + 1]
    /\ NetFrame

\* The k (and with it the v) a goroutine of the range loop reads: that of
\* its own turn, or the loop's as it is now.
LoopVar(g) == IF net.loopVarShared THEN net.cls.k ELSE g

\* Close, line 305, the right-hand side: v.Close() is called; a nil v panics.
Closer_DirectClose(g) ==
    /\ ~net.crashed
    /\ At(g, "call")
    /\ IF net.clients.Direct[LoopVar(g)] = "nil"
       THEN net' = [net EXCEPT !.crashed = TRUE]
       ELSE \E res \in DirectResults :
                net' = [net EXCEPT !.gor[g].res = res, !.gor[g].k = LoopVar(g),
                                   !.gor[g].pc = "write",
                                   !.closeCount[LoopVar(g)] = @ + 1]
    /\ NetFrame

\* The goroutines that are writing the result table.
Writing == {g \in DOMAIN net.gor : net.gor[g].pc = "writing"}

\* Close, line 305, the assignment: the write of directErrors[k] begins, k
\* read before the call or now. No lock is held by the goroutine; a write
\* that begins while another is under way is a concurrent map write, which
\* the runtime ends the process for when it detects it.
Closer_BeginWrite(g) ==
    /\ ~net.crashed
    /\ At(g, "write")
    /\ \E key \in {net.gor[g].k, LoopVar(g)} :
        \/ net' = [net EXCEPT !.gor = [h \in DOMAIN @ |->
                        IF h = g THEN [@[g] EXCEPT !.pc = "writing", !.k = key,
                                                   !.raced = Writing # {}]
                        ELSE IF h \in Writing THEN [@[h] EXCEPT !.raced = TRUE]
                        ELSE @[h]]]
        \/ /\ Writing # {}
           /\ net' = [net EXCEPT !.crashed = TRUE]
    /\ NetFrame

\* Close, line 305, the assignment: the write ends. A write that overlapped
\* another may be lost.
Closer_EndWrite(g) ==
    /\ ~net.crashed
    /\ At(g, "writing")
    /\ \/ net' = [net EXCEPT !.gor[g].pc = "Done",
                             !.cls.directErrors = (net.gor[g].k :> net.gor[g].res) @@ @]
       \/ /\ net.gor[g].raced
          /\ net' = [net EXCEPT !.gor[g].pc = "Done"]
    /\ NetFrame

\* Close, lines 295, 306: wg.Done().
Closer_Done(g) ==
    /\ ~net.crashed
    /\ At(g, "Done")
    /\ net' = [net EXCEPT !.gor[g].pc = "done", !.cls.wg = @ - 1]
    /\ NetFrame

\* Close, lines 313-323: dmsgErr when it is not nil, else an error of the
\* result table when there is one, else nil.
Returned(dmsgErr, directErrors) ==
    IF dmsgErr # "nil" THEN dmsgErr
    ELSE IF \E t \in DOMAIN directErrors : directErrors[t] # "nil" THEN "direct error"
    ELSE "nil"

\* Close, lines 311-324: wg.Wait() returns once the counter is zero, the
\* result is returned and n.netsMu released.
Close_Return ==
    /\ ~net.crashed
    /\ net.cls.pc = "Wait"
    /\ net.cls.wg = 0
    /\ net' = [net EXCEPT
                 !.cls = [pc |-> "returned", ret |-> Returned(@.dmsgErr, @.directErrors)],
                 !.netsMu = FALSE]
    /\ NetFrame

NextNet ==
    \/ Close_Lock
    \/ Close_StartDmsg
    \/ Close_Range
    \/ Closer_DmsgClose
    \/ \E g \in DirectTypes :
        \/ Closer_DirectClose(g)
        \/ Closer_BeginWrite(g)
        \/ Closer_EndWrite(g)
    \/ \E g \in Closers : Closer_Done(g)
    \/ Close_Return

\* A Network alone.
InitNet == ServerIdle /\ NoChat /\ NetInit

SpecNet == InitNet /\ [][NextNet]_vars

\* Client c is there to be closed.
Configured(c) ==
    IF c = DmsgType THEN net.clients.DmsgC
    ELSE c \in DOMAIN net.clients.Direct /\ net.clients.Direct[c] = "client"

\* C27: Network.Close calls Close at most once on each client; no two of its
\* goroutines write the result table at the same time; and when it has
\* returned, every goroutine it started is over, each configured client was
\* closed exactly once and no other, and nil was returned only if every
\* client's Close returned nil.
C27_CloseClosesAll ==
    /\ \A c \in Closers : net.closeCount[c] <= 1
    /\ Cardinality(Writing) <= 1
    /\ net.cls.pc = "returned" =>
        /\ \A g \in DOMAIN net.gor : net.gor[g].pc = "done"
        /\ \A c \in Closers : net.closeCount[c] = IF Configured(c) THEN 1 ELSE 0
        /\ net.cls.ret = "nil" => \A g \in DOMAIN net.gor : net.gor[g].res = "nil"

====
